---- MODULE Spec2Model ----
(***************************************************************************)
(* The chatbot backend of AI-Predictive-Maintenance: the /chat handler     *)
(* (handleChatRequest), the language-model service (analyzeUserQuery,      *)
(* formatResponse) and the store service (supabaseService) it dispatches   *)
(* to.  Texts are TLA+ strings handled with Len, SubSeq and \o, so that    *)
(* startsWith, substring, trim, split and parseInt are computed character  *)
(* by character as JavaScript computes them.  Instants are counted in      *)
(* hours (the code's milliseconds divided by 60 * 60 * 1000); sensor       *)
(* values are integers or null.                                            *)
(***************************************************************************)
EXTENDS Integers, Sequences, FiniteSets, TLC

(***************************************************************************)
(* Bounds of the model.                                                    *)
(***************************************************************************)
MaxRows == 2          \* rows of the sensor table
MaxTicks == 1         \* hours the clock may advance during a behaviour

(***************************************************************************)
(* JavaScript values.                                                      *)
(***************************************************************************)
Undefined == [type |-> "undefined"]
Null == [type |-> "null"]
NaN == [type |-> "NaN"]
Num(n) == [type |-> "number", val |-> n]
Str(s) == [type |-> "string", val |-> s]
Bool(b) == [type |-> "boolean", val |-> b]

WhiteSpace == {" ", "\t", "\n", "\r"}
Digits == {"0", "1", "2", "3", "4", "5", "6", "7", "8", "9"}
DigitVal == ("0" :> 0) @@ ("1" :> 1) @@ ("2" :> 2) @@ ("3" :> 3) @@ ("4" :> 4)
            @@ ("5" :> 5) @@ ("6" :> 6) @@ ("7" :> 7) @@ ("8" :> 8) @@ ("9" :> 9)

\* F applied to the value of v, computed once (a const of the code)
Bind(v, F(_)) == CHOOSE y \in {F(x) : x \in {v}} : TRUE

CharAt(s, i) == SubSeq(s, i, i)

\* String.prototype.startsWith(p)
startsWith(s, p) == Len(s) >= Len(p) /\ SubSeq(s, 1, Len(p)) = p

\* String.prototype.substring(start): the characters from 0-based index start on
substring(s, start) == IF start >= Len(s) THEN "" ELSE SubSeq(s, start + 1, Len(s))

RECURSIVE trimStart(_)
trimStart(s) ==
    IF Len(s) > 0 /\ CharAt(s, 1) \in WhiteSpace
    THEN trimStart(SubSeq(s, 2, Len(s)))
    ELSE s

RECURSIVE trimEnd(_)
trimEnd(s) ==
    IF Len(s) > 0 /\ CharAt(s, Len(s)) \in WhiteSpace
    THEN trimEnd(SubSeq(s, 1, Len(s) - 1))
    ELSE s

\* String.prototype.trim()
trim(s) == trimEnd(trimStart(s))

\* String.prototype.indexOf(c) + 1 for a one-character c; 0 when absent
indexFrom(s, c, i) ==
    Bind({k \in i..Len(s) : CharAt(s, k) = c}, LAMBDA at :
        IF at = {} THEN 0 ELSE CHOOSE k \in at : \A j \in at : k <= j)

\* String.prototype.split(sep) for a one-character sep: the pieces between
\* the separators, in order
RECURSIVE split(_, _)
split(s, sep) ==
    Bind(indexFrom(s, sep, 1), LAMBDA i :
        IF i = 0 THEN <<s>>
        ELSE Bind(SubSeq(s, i + 1, Len(s)), LAMBDA rest :
                <<SubSeq(s, 1, i - 1)>> \o split(rest, sep)))

\* String.prototype.replace(pat, ""): the first occurrence of pat removed
findAt(s, pat, i) ==
    Bind({k \in i..(Len(s) - Len(pat) + 1) : SubSeq(s, k, k + Len(pat) - 1) = pat},
         LAMBDA at : IF at = {} THEN 0 ELSE CHOOSE k \in at : \A j \in at : k <= j)

replaceFirst(s, pat) ==
    Bind(findAt(s, pat, 1), LAMBDA i :
        IF i = 0 THEN s
        ELSE SubSeq(s, 1, i - 1) \o SubSeq(s, i + Len(pat), Len(s)))

\* The value of the longest prefix of decimal digits of s, or -1 when it has none
RECURSIVE digitsValue(_, _, _)
digitsValue(s, i, acc) ==
    IF i <= Len(s) /\ CharAt(s, i) \in Digits
    THEN digitsValue(s, i + 1, (IF acc < 0 THEN 0 ELSE acc) * 10 + DigitVal[CharAt(s, i)])
    ELSE acc

\* The string parseInt converts its argument to
stringOf(v) ==
    CASE v.type = "string" -> v.val
      [] v.type = "undefined" -> "undefined"
      [] v.type = "null" -> "null"
      [] v.type = "NaN" -> "NaN"

\* parseInt(v) without a radix: leading white space skipped, an optional
\* sign, then the leading decimal digits; NaN when there is no digit.  (A
\* "0x" prefix, which selects radix 16, occurs in no text of the model.)
parseInt(v) ==
    LET s == trimStart(stringOf(v))
        neg == Len(s) > 0 /\ CharAt(s, 1) = "-"
        signed == Len(s) > 0 /\ CharAt(s, 1) \in {"-", "+"}
        body == IF signed THEN SubSeq(s, 2, Len(s)) ELSE s
        n == digitsValue(body, 1, -1)
    IN  IF n < 0 THEN NaN
        ELSE Num(IF neg THEN 0 - n ELSE n)


(***************************************************************************)
(* The store: two tables read through PostgREST queries.  A row is a       *)
(* function from column names to values; the timestamp column holds an     *)
(* instant, every other column null, a number or a boolean.                *)
(***************************************************************************)
sensorHistoryTable == "sensor_history"
predictionsTable == "predictions"

SensorChannels ==
    {"evaporator_coil_temperature", "freezer_temperature", "fridge_temperature",
     "air_temperature", "humidity", "compressor_vibration_x",
     "compressor_vibration_y", "compressor_vibration_z", "compressor_vibration",
     "compressor_current", "input_voltage", "power_consumption",
     "gas_leakage_level", "temperature_diff"}
SensorColumns == {"timestamp"} \cup SensorChannels
PredictionColumns ==
    {"timestamp", "anomaly", "failure_probability", "health_index",
     "remaining_useful_life"}
TableColumns(table) ==
    IF table = sensorHistoryTable THEN SensorColumns
    ELSE IF table = predictionsTable THEN PredictionColumns
    ELSE {}

\* Object.keys(config.sensorFields)
sensorFields ==
    <<"temperature_internal", "temperature_evaporator", "ambient_temperature",
      "humidity_internal", "pressure_refrigerant", "current_compressor",
      "vibration_level", "gas_leak_level", "compressor_status",
      "compressor_cycle_time", "energy_consumption", "temperature_gradient",
      "pressure_trend", "units", "displayNames">>

HoursPerDay == 24

RangeError == [name |-> "RangeError", message |-> "Invalid time value"]
TypeError == [name |-> "TypeError", message |-> "Cannot read properties"]

\* new Date(Date.now() - n * unit).toISOString(): the instant, or a RangeError
\* when n is NaN (no text of the model is long enough to leave Date's range)
\* A window that starts now when the number of days is not a number
windowStartDefaulting(nowT, n, unit) ==
    [ok |-> TRUE, iso |-> Num(nowT - (IF n.type = "number" THEN n.val ELSE 0) * unit)]

windowStart(nowT, n, unit) ==
    IF n.type = "number"
    THEN [ok |-> TRUE, iso |-> Num(nowT - n.val * unit)]
    ELSE [ok |-> FALSE, error |-> RangeError]

NoOrder == [column |-> "", ascending |-> TRUE]
Query(table, select, since, order, limit) ==
    [table |-> table, select |-> select, gte |-> since, order |-> order,
     limit |-> limit]

\* The columns a select string names: "*" is every column, otherwise the
\* comma-separated names with the white space around them dropped
selectNames(select) ==
    Bind(split(select, ","), LAMBDA parts : {trim(parts[i]) : i \in 1..Len(parts)})
selectKnown(q) ==
    \/ q.select = "*"
    \/ selectNames(q.select) \subseteq TableColumns(q.table)
selectedColumns(q) ==
    IF q.select = "*" THEN TableColumns(q.table) ELSE selectNames(q.select)

\* ORDER BY on a column: nulls sort as larger than every number (PostgreSQL's
\* default: last when ascending, first when descending)
keyLe(a, b, column) ==
    IF column = "timestamp" THEN a <= b
    ELSE \/ b.type = "null"
         \/ a.type # "null" /\ b.type # "null" /\ a.val <= b.val
inOrder(a, b, order) ==
    IF order.ascending THEN keyLe(a[order.column], b[order.column], order.column)
    ELSE keyLe(b[order.column], a[order.column], order.column)

\* The orders in which the store may return rows: the stored order without
\* ORDER BY, otherwise every order that respects the key (rows with equal
\* keys come in any order): a row that no other row must precede comes
\* first, then the others in one of their orders
RECURSIVE ordersOf(_, _, _)
ordersOf(rows, idx, order) ==
    IF idx = {} THEN {<<>>}
    ELSE UNION {{<<rows[i]>> \o rest : rest \in ordersOf(rows, idx \ {i}, order)} :
                  i \in {j \in idx : \A k \in idx : inOrder(rows[j], rows[k], order)}}

orderings(rows, order) ==
    IF order = NoOrder THEN {rows}
    ELSE ordersOf(rows, 1..Len(rows), order)

\* A filter that drops the row at the bound: .gt("timestamp", since)
gt(rows, since) ==
    IF since = Undefined THEN rows
    ELSE LET keep(row) == row["timestamp"] > since.val
         IN  SelectSeq(rows, keep)

\* .gte("timestamp", since)
gte(rows, since) ==
    IF since = Undefined THEN rows
    ELSE LET keep(row) == row["timestamp"] >= since.val
         IN  SelectSeq(rows, keep)

limitTo(rows, limit) ==
    IF limit > 0 /\ Len(rows) > limit THEN SubSeq(rows, 1, limit) ELSE rows

project(rows, cols) == [i \in 1..Len(rows) |-> [c \in cols |-> rows[i][c]]]

\* The data arrays the store may answer a well-formed query with
queryData(q, rows) ==
    Bind(selectedColumns(q), LAMBDA cols :
        {project(limitTo(o, q.limit), cols) :
            o \in orderings(gte(rows, q.gte), q.order)})

(***************************************************************************)
(* Number formatting.                                                      *)
(***************************************************************************)
DigitChar == <<"0", "1", "2", "3", "4", "5", "6", "7", "8", "9">>

RECURSIVE naturalToString(_)
naturalToString(n) ==
    IF n < 10 THEN DigitChar[n + 1]
    ELSE naturalToString(n \div 10) \o DigitChar[(n % 10) + 1]

numberToString(n) ==
    IF n < 0 THEN "-" \o naturalToString(0 - n) ELSE naturalToString(n)

\* Number.prototype.toFixed(digits) of an integer
toFixed(n, digits) ==
    numberToString(n) \o
    (IF digits = 0 THEN "" ELSE "." \o SubSeq("000000", 1, digits))

\* A quotient the code computes in floating point, kept exact
Ratio(n, d) == [type |-> "ratio", num |-> n, den |-> d]

RECURSIVE sumSeq(_)
sumSeq(ns) == IF Len(ns) = 0 THEN 0 ELSE Head(ns) + sumSeq(Tail(ns))

RECURSIVE minSeq(_)
minSeq(ns) ==
    IF Len(ns) = 1 THEN ns[1]
    ELSE LET m == minSeq(Tail(ns)) IN IF ns[1] <= m THEN ns[1] ELSE m

RECURSIVE maxSeq(_)
maxSeq(ns) ==
    IF Len(ns) = 1 THEN ns[1]
    ELSE LET m == maxSeq(Tail(ns)) IN IF ns[1] >= m THEN ns[1] ELSE m

\* Outcomes of a call: a value returned or an error thrown
Return(v) == [ok |-> TRUE, value |-> v]
Throw(e) == [ok |-> FALSE, error |-> e]

\* `${field}` and "timestamp, " + field
fieldText(field) == stringOf(field)

\* record[field], undefined when the record has no such property
prop(record, field) ==
    IF field \in DOMAIN record THEN record[field] ELSE Undefined

\* parseFloat(v || 0) of a null, undefined or numeric value
numberOrZero(v) == IF v.type = "number" THEN v.val ELSE 0

\* The number a comparison converts a null or numeric value to
toNumber(v) == IF v.type = "number" THEN v.val ELSE 0

(***************************************************************************)
(* supabaseService: for each function, the query it builds (or the error   *)
(* building it throws) and what it makes of the rows the store answers.    *)
(***************************************************************************)
DescendingBy(column) == [column |-> column, ascending |-> FALSE]
AscendingBy(column) == [column |-> column, ascending |-> TRUE]

windowQuery(table, select, nowT, n, unit, order, limit) ==
    LET w == windowStart(nowT, n, unit)
    IN  IF w.ok THEN Return(Query(table, select, w.iso, order, limit))
        ELSE Throw(w.error)

getLatestSensorDataQuery ==
    Return(Query(sensorHistoryTable, "*", Undefined, DescendingBy("timestamp"), 1))
getLatestSensorDataResult(data) == IF Len(data) > 0 THEN data[1] ELSE Null

\* The latest value read from the ascending order
getCurrentValueQueryAscending(field) ==
    Return(Query(sensorHistoryTable,
                 IF field = Undefined THEN "*" ELSE field.val,
                 Undefined, AscendingBy("timestamp"), 1))

\* select(field): an undefined argument takes the parameter's default, "*"
getCurrentValueQuery(field) ==
    Return(Query(sensorHistoryTable,
                 IF field = Undefined THEN "*" ELSE field.val,
                 Undefined, DescendingBy("timestamp"), 1))
getCurrentValueResult(data) == data

getHistoricalAverageQuery(field, days, nowT) ==
    windowQuery(sensorHistoryTable, fieldText(field), nowT, days, HoursPerDay,
                NoOrder, 0)
getHistoricalAverageResult(field, data) ==
    IF Len(data) > 0
    THEN LET isValid(v) == v.type \notin {"null", "undefined"}
             validValues ==
                 SelectSeq([i \in 1..Len(data) |-> prop(data[i], fieldText(field))],
                           isValid)
         IN  IF Len(validValues) = 0 THEN <<>>
             ELSE <<[average |->
                       Ratio(sumSeq([i \in 1..Len(validValues) |-> validValues[i].val]),
                             Len(validValues))]>>
    ELSE <<>>

\* A maximum taken from the ascending order
getHistoricalMaxQueryAscending(field, days, nowT) ==
    windowQuery(sensorHistoryTable, fieldText(field), nowT, days, HoursPerDay,
                AscendingBy(fieldText(field)), 1)

getHistoricalMaxQuery(field, days, nowT) ==
    windowQuery(sensorHistoryTable, fieldText(field), nowT, days, HoursPerDay,
                DescendingBy(fieldText(field)), 1)
getHistoricalMaxResult(data) == data

getHistoricalMinQuery(field, days, nowT) ==
    windowQuery(sensorHistoryTable, fieldText(field), nowT, days, HoursPerDay,
                AscendingBy(fieldText(field)), 1)
getHistoricalMinResult(data) == data

getTrendDataQuery(field, hours, nowT) ==
    windowQuery(sensorHistoryTable, "timestamp, " \o fieldText(field), nowT, hours,
                1, AscendingBy("timestamp"), 0)
getTrendDataResult(data) == data

getStatusQuery(field) ==
    Return(Query(sensorHistoryTable,
                 IF field = Undefined THEN "*" ELSE field.val,
                 Undefined, DescendingBy("timestamp"), 1))
getStatusResult(data) == data

getAverageOfAllSensorsQuery(days, nowT) ==
    windowQuery(sensorHistoryTable, "*", nowT, days, HoursPerDay, NoOrder, 0)
getAverageOfAllSensorsResult(data) ==
    IF Len(data) > 0
    THEN [f \in {sensorFields[k] : k \in 1..Len(sensorFields)} |->
            Ratio(sumSeq([i \in 1..Len(data) |-> numberOrZero(prop(data[i], f))]),
                  Len(data))]
    ELSE <<>>

getTimeOfHighestValueQuery(field, days, nowT) ==
    windowQuery(sensorHistoryTable, "timestamp, " \o fieldText(field), nowT, days,
                HoursPerDay, DescendingBy(fieldText(field)), 1)
getTimeOfHighestValueResult(data) == IF Len(data) > 0 THEN data[1] ELSE Null

\* Statistics that leave out the rows without a value
calculateStatsSkippingNull(data, field) ==
    LET present(record) == prop(record, field).type = "number"
        values == [i \in 1..Len(SelectSeq(data, present)) |->
                      SelectSeq(data, present)[i][field].val]
    IN  IF Len(values) = 0 THEN [min |-> 0, max |-> 0, avg |-> Ratio(0, 1)]
        ELSE [min |-> minSeq(values), max |-> maxSeq(values),
              avg |-> Ratio(sumSeq(values), Len(values))]

calculateStats(data, field) ==
    LET values == [i \in 1..Len(data) |-> numberOrZero(prop(data[i], field))]
    IN  IF Len(values) = 0 THEN [min |-> 0, max |-> 0, avg |-> 0]
        ELSE [min |-> minSeq(values), max |-> maxSeq(values),
              avg |-> Ratio(sumSeq(values), Len(values))]

getVibrationDetailsQuery(days, nowT) ==
    windowQuery(sensorHistoryTable,
                "timestamp, compressor_vibration, compressor_vibration_x, compressor_vibration_y, compressor_vibration_z",
                nowT, days, HoursPerDay, AscendingBy("timestamp"), 0)
getVibrationDetailsResult(data) ==
    IF Len(data) > 0
    THEN [compressor_vibration |-> calculateStats(data, "compressor_vibration"),
          compressor_vibration_x |-> calculateStats(data, "compressor_vibration_x"),
          compressor_vibration_y |-> calculateStats(data, "compressor_vibration_y"),
          compressor_vibration_z |-> calculateStats(data, "compressor_vibration_z"),
          timeSeriesData |-> data]
    ELSE Null

\* Array.prototype.join(", ")
RECURSIVE join(_)
join(texts) ==
    IF Len(texts) = 0 THEN ""
    ELSE IF Len(texts) = 1 THEN texts[1]
    ELSE texts[1] \o ", " \o join(Tail(texts))

\* Thresholds one unit lower, under which a reading at the documented
\* threshold is flagged
thresholdsLowered ==
    [compressor_vibration |-> 9, gas_leakage_level |-> 49,
     temperature_diff |-> 24, power_consumption |-> 499]

thresholds ==
    [compressor_vibration |-> 10, gas_leakage_level |-> 50,
     temperature_diff |-> 25, power_consumption |-> 500]

abs(n) == IF n < 0 THEN 0 - n ELSE n

checkMaintenanceQuery == getLatestSensorDataQuery
checkMaintenanceResult(data) ==
    LET latestData == getLatestSensorDataResult(data)
        reading(c) == toNumber(prop(latestData, c))
        issues ==
            (IF reading("compressor_vibration") > thresholds.compressor_vibration
             THEN <<"High compressor vibration ("
                    \o toFixed(reading("compressor_vibration"), 2) \o " mm/s)">>
             ELSE <<>>)
            \o (IF reading("gas_leakage_level") > thresholds.gas_leakage_level
                THEN <<"Elevated gas leakage level ("
                       \o toFixed(reading("gas_leakage_level"), 2) \o " ppm)">>
                ELSE <<>>)
            \o (IF abs(reading("temperature_diff")) > thresholds.temperature_diff
                THEN <<"Abnormal temperature difference ("
                       \o toFixed(reading("temperature_diff"), 2) \o " C)">>
                ELSE <<>>)
            \o (IF reading("power_consumption") > thresholds.power_consumption
                THEN <<"High power consumption ("
                       \o toFixed(reading("power_consumption"), 2) \o " W)">>
                ELSE <<>>)
    IN  IF latestData = Null
        THEN Return([needed |-> FALSE, reason |-> "No sensor data available"])
        ELSE Return([needed |-> Len(issues) > 0,
                     reason |-> IF Len(issues) > 0 THEN join(issues)
                                ELSE "All parameters within normal ranges",
                     data |-> latestData])

getLatestPredictionQuery ==
    Return(Query(predictionsTable, "*", Undefined, DescendingBy("timestamp"), 1))
getLatestPredictionResult(data) == IF Len(data) > 0 THEN data[1] ELSE Null

getPredictionHistoryQuery(field, days, nowT) ==
    windowQuery(predictionsTable, "timestamp, " \o fieldText(field), nowT, days,
                HoursPerDay, AscendingBy("timestamp"), 0)
getPredictionHistoryResult(data) == data

\* Array.prototype.sort((a, b) => new Date(b) - new Date(a)): newest first,
\* equal instants kept in their order
RECURSIVE insertNewestFirst(_, _)
insertNewestFirst(sorted, t) ==
    IF Len(sorted) = 0 THEN <<t>>
    ELSE IF Head(sorted) >= t THEN <<Head(sorted)>> \o insertNewestFirst(Tail(sorted), t)
    ELSE <<t>> \o sorted

\* Timestamps left in the order of the answer
sortNothing(ts) == ts

RECURSIVE sortNewestFirst(_)
sortNewestFirst(ts) ==
    IF Len(ts) = 0 THEN <<>>
    ELSE insertNewestFirst(sortNewestFirst(SubSeq(ts, 1, Len(ts) - 1)), ts[Len(ts)])

\* A percentage cut after its first decimal instead of rounded
percentageTextTruncated(count, total) ==
    LET tenths == IF total > 0 THEN (1000 * count) \div total ELSE 0
    IN  numberToString(tenths \div 10) \o "." \o DigitChar[(tenths % 10) + 1]

\* (count / total * 100).toFixed(1), the percentage rounded to tenths
percentageText(count, total) ==
    LET tenths == IF total > 0 THEN (2000 * count + total) \div (2 * total) ELSE 0
    IN  numberToString(tenths \div 10) \o "." \o DigitChar[(tenths % 10) + 1]

getAnomalySummaryQuery(days, nowT) ==
    windowQuery(predictionsTable, "anomaly, timestamp", nowT, days, HoursPerDay,
                NoOrder, 0)
getAnomalySummaryResult(data) ==
    LET isAnomaly(item) == item["anomaly"] = Bool(TRUE)
        anomalies == SelectSeq(data, isAnomaly)
        anomalyTimestamps ==
            sortNewestFirst([i \in 1..Len(anomalies) |-> anomalies[i]["timestamp"]])
    IN  [total_predictions |-> Len(data),
         anomaly_count |-> Len(anomalies),
         anomaly_percentage |-> percentageText(Len(anomalies), Len(data)),
         anomaly_timestamps |-> limitTo(anomalyTimestamps, 5)]

\* failure_probability is held in hundredths, so that 0.4 is 40
checkPredictionMaintenanceQuery == getLatestPredictionQuery

\* A decision taken with the thresholds of the reasons, 70 and 168
checkPredictionMaintenanceByReasons(data) ==
    LET latestPrediction == getLatestPredictionResult(data)
    IN  IF latestPrediction = Null
        THEN Return([maintenance_needed |-> FALSE, confidence |-> 0,
                     reasons |-> <<"No prediction data available">>])
        ELSE Return([maintenance_needed |->
                        \/ latestPrediction["anomaly"] = Bool(TRUE)
                        \/ toNumber(latestPrediction["failure_probability"]) > 40
                        \/ toNumber(latestPrediction["health_index"]) < 70
                        \/ toNumber(latestPrediction["remaining_useful_life"]) < 168,
                     last_prediction_time |-> latestPrediction["timestamp"]])

\* A confidence cut down to the integer below instead of rounded
checkPredictionMaintenanceTruncating(data) ==
    LET latestPrediction == getLatestPredictionResult(data)
        weightedSum42 ==
            42 * (3 * (IF prop(latestPrediction, "anomaly") = Bool(TRUE)
                       THEN 100 ELSE 0)
                  + 2 * toNumber(prop(latestPrediction, "failure_probability"))
                  + (100 - toNumber(prop(latestPrediction, "health_index"))))
            + (IF toNumber(prop(latestPrediction, "remaining_useful_life")) < 168
               THEN 25 * (168 - toNumber(prop(latestPrediction,
                                              "remaining_useful_life")))
               ELSE 0)
    IN  IF latestPrediction = Null
        THEN Return([maintenance_needed |-> FALSE, confidence |-> 0,
                     reasons |-> <<"No prediction data available">>])
        ELSE Return([confidence |-> IF weightedSum42 \div 294 > 100 THEN 100
                                    ELSE weightedSum42 \div 294])

\* Reasons given at the thresholds of the decision, 50 and 48
checkPredictionMaintenanceStrictReasons(data) ==
    LET latestPrediction == getLatestPredictionResult(data)
        fp == toNumber(prop(latestPrediction, "failure_probability"))
        hi == toNumber(prop(latestPrediction, "health_index"))
        rul == toNumber(prop(latestPrediction, "remaining_useful_life"))
        maintenanceNeeded ==
            \/ prop(latestPrediction, "anomaly") = Bool(TRUE)
            \/ fp > 40 \/ hi < 50 \/ rul < 48
        reasons ==
            (IF prop(latestPrediction, "anomaly") = Bool(TRUE)
             THEN <<"Anomaly detected in system operation">> ELSE <<>>)
            \o (IF fp > 40
                THEN <<"High failure probability: " \o toFixed(fp, 1) \o "%">>
                ELSE <<>>)
            \o (IF hi < 50
                THEN <<"Low health index: " \o toFixed(hi, 1) \o "/100">>
                ELSE <<>>)
            \o (IF rul < 48
                THEN <<"Limited remaining useful life: " \o toFixed(rul, 0)
                       \o " hours">>
                ELSE <<>>)
    IN  IF latestPrediction = Null
        THEN Return([maintenance_needed |-> FALSE, confidence |-> 0,
                     reasons |-> <<"No prediction data available">>])
        ELSE Return([maintenance_needed |-> maintenanceNeeded,
                     reasons |-> IF Len(reasons) = 0 /\ ~maintenanceNeeded
                                 THEN <<"All parameters within normal operating ranges">>
                                 ELSE reasons])

\* Reasons that leave the anomaly out
checkPredictionMaintenanceSilent(data) ==
    LET latestPrediction == getLatestPredictionResult(data)
        fp == toNumber(prop(latestPrediction, "failure_probability"))
        hi == toNumber(prop(latestPrediction, "health_index"))
        rul == toNumber(prop(latestPrediction, "remaining_useful_life"))
        maintenanceNeeded ==
            \/ prop(latestPrediction, "anomaly") = Bool(TRUE)
            \/ fp > 40 \/ hi < 50 \/ rul < 48
        reasons ==
            (IF fp > 40 THEN <<"High failure probability">> ELSE <<>>)
            \o (IF hi < 70 THEN <<"Low health index">> ELSE <<>>)
            \o (IF rul < 168 THEN <<"Limited remaining useful life">> ELSE <<>>)
    IN  IF latestPrediction = Null
        THEN Return([maintenance_needed |-> FALSE, confidence |-> 0,
                     reasons |-> <<"No prediction data available">>])
        ELSE Return([maintenance_needed |-> maintenanceNeeded,
                     reasons |-> IF Len(reasons) = 0 /\ ~maintenanceNeeded
                                 THEN <<"All parameters within normal operating ranges">>
                                 ELSE reasons])

checkPredictionMaintenanceResult(data) ==
    LET latestPrediction == getLatestPredictionResult(data)
        anomaly == prop(latestPrediction, "anomaly")
        failure_probability == prop(latestPrediction, "failure_probability")
        health_index == prop(latestPrediction, "health_index")
        remaining_useful_life == prop(latestPrediction, "remaining_useful_life")
        fp == toNumber(failure_probability)
        hi == toNumber(health_index)
        rul == toNumber(remaining_useful_life)
        maintenanceNeeded ==
            anomaly = Bool(TRUE) \/ fp > 40 \/ hi < 50 \/ rul < 48
        \* the weighted sum over 42, the urgency being (168 - rul) * 25 / 42
        weightedSum42 ==
            42 * (3 * (IF anomaly = Bool(TRUE) THEN 100 ELSE 0) + 2 * fp + (100 - hi))
            + (IF rul < 168 THEN 25 * (168 - rul) ELSE 0)
        rounded == (2 * weightedSum42 + 294) \div 588
        confidence == IF rounded > 100 THEN 100 ELSE rounded
        reasons ==
            (IF anomaly = Bool(TRUE)
             THEN <<"Anomaly detected in system operation">> ELSE <<>>)
            \o (IF fp > 40
                THEN <<"High failure probability: " \o toFixed(fp, 1) \o "%">>
                ELSE <<>>)
            \o (IF hi < 70
                THEN <<"Low health index: " \o toFixed(hi, 1) \o "/100">>
                ELSE <<>>)
            \o (IF rul < 168
                THEN <<"Limited remaining useful life: " \o toFixed(rul, 0)
                       \o " hours">>
                ELSE <<>>)
    IN  IF latestPrediction = Null
        THEN Return([maintenance_needed |-> FALSE, confidence |-> 0,
                     reasons |-> <<"No prediction data available">>,
                     remaining_useful_life |-> Null, health_index |-> Null,
                     failure_probability |-> Null, anomaly_detected |-> FALSE])
        ELSE IF \/ hi < 70 /\ health_index.type # "number"
                \/ rul < 168 /\ remaining_useful_life.type # "number"
        THEN Throw(TypeError)     \* toFixed of null
        ELSE Return([maintenance_needed |-> maintenanceNeeded,
                     confidence |-> confidence,
                     reasons |-> IF Len(reasons) = 0 /\ ~maintenanceNeeded
                                 THEN <<"All parameters within normal operating ranges">>
                                 ELSE reasons,
                     remaining_useful_life |-> remaining_useful_life,
                     health_index |-> health_index,
                     failure_probability |-> failure_probability,
                     anomaly_detected |-> anomaly,
                     last_prediction_time |-> latestPrediction["timestamp"]])

(***************************************************************************)
(* openaiService and the chat controller.                                  *)
(***************************************************************************)
ClarificationText == "I'm not sure how to answer that. Could you rephrase your question?"
ApologyText == "Sorry, I encountered an error processing your request. Please try again."

AnalyzeError == [name |-> "Error", message |-> "Failed to analyze query"]
FormatError == [name |-> "Error", message |-> "Failed to format response"]

\* analyzeUserQuery and formatResponse after the completion arrived:
\* completion.choices[0].message.content.trim(), any error replaced by a
\* fixed one
analyzeUserQuery(content) ==
    IF content.type = "string" THEN Return(trim(content.val)) ELSE Throw(AnalyzeError)
formatResponse(content) ==
    IF content.type = "string" THEN Return(trim(content.val)) ELSE Throw(FormatError)

\* const [queryType, field, timeRange] = result.split(":")
element(parts, i) == IF i <= Len(parts) THEN Str(parts[i]) ELSE Undefined
queryTypeOf(result) == split(result, ":")[1]
fieldOf(result) == Bind(split(result, ":"), LAMBDA parts : element(parts, 2))
timeRangeOf(result) == Bind(split(result, ":"), LAMBDA parts : element(parts, 3))

\* A duration whose unit is read: a number of days is turned into hours
trendHoursConverting(timeRange) ==
    IF timeRange.type = "string"
    THEN Bind(parseInt(Str(replaceFirst(timeRange.val, "hours"))), LAMBDA n :
            Return(IF n.type = "number" /\ findAt(timeRange.val, "days", 1) > 0
                   THEN Num(n.val * HoursPerDay) ELSE n))
    ELSE Throw(TypeError)

\* timeRange.replace("hours", ""): a TypeError when timeRange is undefined
trendHours(timeRange) ==
    IF timeRange.type = "string"
    THEN Return(parseInt(Str(replaceFirst(timeRange.val, "hours"))))
    ELSE Throw(TypeError)

\* A switch whose every case calls the maintenance check
CallCheckMaintenance(fn, built) ==
    [kind |-> "call", fn |-> "checkMaintenance", built |-> built]

Call(fn, built) == [kind |-> "call", fn |-> fn, built |-> built]
Respond(body) == [kind |-> "respond", body |-> body]

\* A default case that falls through to the formatter with no data
defaultCaseQuerying == Call("getCurrentValue", getCurrentValueQuery(Undefined))

\* The default case of the switch: a fixed clarification, status 200
defaultCase == Respond(ClarificationText)

\* The switch of handleChatRequest: the service function called for a query
\* type, with the query it builds or the error thrown on the way
dispatch(queryType, field, timeRange, nowT) ==
    CASE queryType = "CURRENT_VALUE" ->
            Call("getCurrentValue", getCurrentValueQuery(field))
      [] queryType = "HISTORICAL_AVG" ->
            Call("getHistoricalAverage",
                 getHistoricalAverageQuery(field, parseInt(timeRange), nowT))
      [] queryType = "HISTORICAL_MAX" ->
            Call("getHistoricalMax",
                 getHistoricalMaxQuery(field, parseInt(timeRange), nowT))
      [] queryType = "HISTORICAL_MIN" ->
            Call("getHistoricalMin",
                 getHistoricalMinQuery(field, parseInt(timeRange), nowT))
      [] queryType = "TREND" ->
            LET hours == trendHours(timeRange)
            IN  IF hours.ok
                THEN Call("getTrendData", getTrendDataQuery(field, hours.value, nowT))
                ELSE [kind |-> "throw", error |-> hours.error]
      [] queryType = "STATUS" ->
            Call("getStatus", getStatusQuery(field))
      [] queryType = "AVERAGE_ALL_SENSORS" ->
            Call("getAverageOfAllSensors",
                 getAverageOfAllSensorsQuery(parseInt(timeRange), nowT))
      [] queryType = "TIME_OF_HIGHEST" ->
            Call("getTimeOfHighestValue",
                 getTimeOfHighestValueQuery(field, parseInt(timeRange), nowT))
      [] queryType = "VIBRATION_DETAILS" ->
            Call("getVibrationDetails",
                 getVibrationDetailsQuery(parseInt(timeRange), nowT))
      [] queryType = "MAINTENANCE_CHECK" ->
            Call("checkMaintenance", checkMaintenanceQuery)
      [] queryType = "PREDICTION_LATEST" ->
            Call("getLatestPrediction", getLatestPredictionQuery)
      [] queryType = "PREDICTION_HISTORY" ->
            Call("getPredictionHistory",
                 getPredictionHistoryQuery(field, parseInt(timeRange), nowT))
      [] queryType = "ANOMALY_SUMMARY" ->
            Call("getAnomalySummary",
                 getAnomalySummaryQuery(parseInt(timeRange), nowT))
      [] queryType = "PREDICTION_MAINTENANCE" ->
            Call("checkPredictionMaintenance", checkPredictionMaintenanceQuery)
      [] OTHER -> defaultCase

\* Service functions that reject an empty answer
serviceResultRejectingEmpty(fn, field, data) ==
    IF Len(data) = 0 THEN Throw([name |-> "Error", message |-> "No data found"])
    ELSE Return(data)

\* What the service function makes of the rows the store answered
serviceResult(fn, field, data) ==
    CASE fn = "getCurrentValue" -> Return(getCurrentValueResult(data))
      [] fn = "getHistoricalAverage" -> Return(getHistoricalAverageResult(field, data))
      [] fn = "getHistoricalMax" -> Return(getHistoricalMaxResult(data))
      [] fn = "getHistoricalMin" -> Return(getHistoricalMinResult(data))
      [] fn = "getTrendData" -> Return(getTrendDataResult(data))
      [] fn = "getStatus" -> Return(getStatusResult(data))
      [] fn = "getAverageOfAllSensors" -> Return(getAverageOfAllSensorsResult(data))
      [] fn = "getTimeOfHighestValue" -> Return(getTimeOfHighestValueResult(data))
      [] fn = "getVibrationDetails" -> Return(getVibrationDetailsResult(data))
      [] fn = "checkMaintenance" -> checkMaintenanceResult(data)
      [] fn = "getLatestPrediction" -> Return(getLatestPredictionResult(data))
      [] fn = "getPredictionHistory" -> Return(getPredictionHistoryResult(data))
      [] fn = "getAnomalySummary" -> Return(getAnomalySummaryResult(data))
      [] fn = "checkPredictionMaintenance" -> checkPredictionMaintenanceResult(data)

\* A short cut that takes the second colon-separated piece as the reply
generalReplyFromSplit(result) == trim(split(result, ":")[2])

\* result.substring(8).trim()
generalReply(result) == trim(substring(result, 8))

\* handleChatRequest from the classifier's answer to its next await or
\* return: the GENERAL short cut, otherwise the switch
afterAnalyze(result, nowT) ==
    IF startsWith(result, "GENERAL:")
    THEN [kind |-> "general", body |-> generalReply(result)]
    ELSE Bind(queryTypeOf(result), LAMBDA queryType :
         Bind(fieldOf(result), LAMBDA field :
         Bind(timeRangeOf(result), LAMBDA timeRange :
            dispatch(queryType, field, timeRange, nowT))))

(***************************************************************************)
(* One request's handler state: where it stands (pc), its locals (result,  *)
(* data), the service functions it invoked (invoked), the outbound calls   *)
(* it made, each with its outcome (calls), the responses it sent (res),    *)
(* the error its catch block caught (caught) and the errors written to     *)
(* the console (log).                                                      *)
(***************************************************************************)
NewCall(to, fn, request, nowT) ==
    [to |-> to, fn |-> fn, request |-> request, at |-> nowT,
     outcome |-> "pending", reply |-> Undefined]

\* What a service function returned (an array, an object or null), as a
\* handler holds it
Held(v) == [type |-> "held", value |-> v]

\* An outcome that is never recorded
settleNothing(cs, outcome, reply) == cs

\* The last call gets its outcome
settle(cs, outcome, reply) ==
    [cs EXCEPT ![Len(cs)] = [@ EXCEPT !.outcome = outcome, !.reply = reply]]

\* res.json(body), the status 200 unless res.status(code) came first
send(h, status, body) == Append(h.res, [status |-> status, body |-> body])

\* A catch block that logs and sends nothing
catchWithoutResponse(h, error, logged) ==
    [h EXCEPT !.pc = "Failed", !.caught = error,
              !.log = @ \o logged \o <<error>>]

\* A catch block that answers without setting the status
catchWithoutStatus(h, error, logged) ==
    [h EXCEPT !.pc = "Failed", !.caught = error,
              !.log = @ \o logged \o <<error>>,
              !.res = send(h, 200, ApologyText)]

\* A catch block that answers with the error's message
catchSendingMessage(h, error, logged) ==
    [h EXCEPT !.pc = "Failed", !.caught = error,
              !.log = @ \o logged \o <<error>>,
              !.res = send(h, 500, error.message)]

\* The catch block of handleChatRequest
catch(h, error, logged) ==
    [h EXCEPT !.pc = "Failed", !.caught = error,
              !.log = @ \o logged \o <<error>>,
              !.res = send(h, 500, ApologyText)]

start(h, prompt, nowT) ==
    [h EXCEPT !.pc = "Classifying",
              !.calls = Append(@, NewCall("classifier", "analyzeUserQuery",
                                          prompt, nowT))]

\* From the classifier's completion to the next await or the response
onAnalyzed(h, content, nowT) ==
    Bind(analyzeUserQuery(content), LAMBDA a :
    LET h1 == [h EXCEPT !.calls = settle(@, "ok", content)]
    IN  IF ~a.ok THEN catch(h1, a.error, <<TypeError>>)
        ELSE
        Bind(afterAnalyze(a.value, nowT), LAMBDA o :
        LET h2 == [h1 EXCEPT !.result = Str(a.value)]
        IN  CASE o.kind = "general" ->
                    [h2 EXCEPT !.pc = "GeneralReply", !.res = send(h2, 200, o.body)]
              [] o.kind = "respond" ->
                    [h2 EXCEPT !.pc = "Clarified", !.res = send(h2, 200, o.body)]
              [] o.kind = "throw" -> catch(h2, o.error, <<>>)
              [] o.kind = "call" /\ ~o.built.ok ->
                    catch([h2 EXCEPT !.invoked = Append(@, o.fn)],
                          o.built.error, <<o.built.error>>)
              [] o.kind = "call" /\ o.built.ok ->
                    [h2 EXCEPT !.pc = "Executing",
                               !.invoked = Append(@, o.fn),
                               !.calls = Append(@, NewCall("store", o.fn,
                                                           o.built.value, nowT))]))

onAnalyzeFailed(h, error) ==
    catch([h EXCEPT !.calls = settle(@, "error", error)], AnalyzeError, <<error>>)

\* A handler that sends its query a second time when the first found no row
onRowsRetrying(h, rows, nowT) ==
    Bind(fieldOf(h.result.val), LAMBDA field :
    Bind(serviceResult(h.calls[Len(h.calls)].fn, field, rows), LAMBDA v :
    LET h1 == [h EXCEPT !.calls = settle(@, "ok", Held(rows))]
    IN  IF Len(rows) = 0 /\ Len(h.calls) = 2
        THEN [h1 EXCEPT !.calls = Append(@, NewCall("store", h.calls[2].fn,
                                                    h.calls[2].request, nowT))]
        ELSE IF ~v.ok THEN catch(h1, v.error, <<v.error>>)
        ELSE [h1 EXCEPT !.pc = "Formatting", !.data = Held(v.value),
                        !.calls = Append(@, NewCall("formatter", "formatResponse",
                                    [queryType |-> queryTypeOf(h.result.val),
                                     field |-> field,
                                     data |-> v.value], nowT))]))

\* From the store's rows to the formatter call
onRows(h, rows, nowT) ==
    Bind(fieldOf(h.result.val), LAMBDA field :
    Bind(serviceResult(h.calls[Len(h.calls)].fn, field, rows), LAMBDA v :
    LET h1 == [h EXCEPT !.calls = settle(@, "ok", Held(rows))]
    IN  IF ~v.ok THEN catch(h1, v.error, <<v.error>>)
        ELSE [h1 EXCEPT !.pc = "Formatting", !.data = Held(v.value),
                        !.calls = Append(@, NewCall("formatter", "formatResponse",
                                    [queryType |-> queryTypeOf(h.result.val),
                                     field |-> field,
                                     data |-> v.value], nowT))]))

onStoreError(h, error) ==
    catch([h EXCEPT !.calls = settle(@, "error", error)], error, <<error>>)

\* A handler that answers with the content before it is trimmed
onFormattedAnswering(h, content) ==
    Bind(formatResponse(content), LAMBDA f :
    LET h1 == [h EXCEPT !.calls = settle(@, "ok", content)]
        h2 == [h1 EXCEPT !.res = send(h1, 200, IF f.ok THEN f.value ELSE "")]
    IN  IF ~f.ok THEN catch(h2, f.error, <<TypeError>>)
        ELSE [h2 EXCEPT !.pc = "Done"])

onFormatted(h, content) ==
    Bind(formatResponse(content), LAMBDA f :
    LET h1 == [h EXCEPT !.calls = settle(@, "ok", content)]
    IN  IF ~f.ok THEN catch(h1, f.error, <<TypeError>>)
        ELSE [h1 EXCEPT !.pc = "Done", !.res = send(h1, 200, f.value)])

onFormatFailed(h, error) ==
    catch([h EXCEPT !.calls = settle(@, "error", error)], FormatError, <<error>>)

(***************************************************************************)
(* The environment: what the language model and the store may answer, the  *)
(* tables' contents, the requests.                                         *)
(***************************************************************************)
\* The handlers of the server; clients holds the requests that are submitted
Requests == {"r1", "r2"}
Prompts == {"How humid is it?"}

Completions ==
    { \* the templates of the system prompt
      "CURRENT_VALUE:freezer_temperature", "HISTORICAL_AVG:humidity:7days",
      "HISTORICAL_MAX:fridge_temperature:1days", "TREND:power_consumption:24hours",
      "AVERAGE_ALL_SENSORS:7days", "TIME_OF_HIGHEST:compressor_vibration:30days",
      "VIBRATION_DETAILS:7days", "MAINTENANCE_CHECK", "PREDICTION_LATEST",
      "PREDICTION_HISTORY:failure_probability:7days", "ANOMALY_SUMMARY:7days",
      "PREDICTION_MAINTENANCE",
      \* free text
      "GENERAL:Hello there", " GENERAL: see a:b \n", "GENERAL:", "GENERAL",
      "general:hi", "Hello: GENERAL:", "",
      \* other codes and shapes
      "FOO:bar", "current_value:humidity", "CURRENT_VALUE", "CURRENT_VALUE:bogus",
      "STATUS:humidity", "HISTORICAL_AVG:humidity:1days",
      "HISTORICAL_AVG:humidity:24hours", "HISTORICAL_AVG:humidity",
      "HISTORICAL_AVG:humidity:week", "HISTORICAL_AVG:bogus:1days",
      "HISTORICAL_MIN:humidity:1days", "TREND:humidity", "TREND:humidity:7days",
      "TREND:humidity:1hours2", "TREND:humidity:hours5",
      "AVERAGE_ALL_SENSORS::1days", "VIBRATION_DETAILS:all:1days",
      "ANOMALY_SUMMARY::1days", "PREDICTION_HISTORY:health_index",
      "MAINTENANCE_CHECK:now" }

FormatterTexts == {" The humidity is fine.\n", "No data."}

ModelErrors ==
    {[name |-> "RateLimitError", message |-> "429"],
     [name |-> "APIConnectionError", message |-> "Connection error."]}
StoreErrors ==
    {[name |-> "PostgrestError", message |-> "JWT expired"],
     [name |-> "TypeError", message |-> "fetch failed"]}
ColumnError == [name |-> "PostgrestError", message |-> "column does not exist"]

mkSensorRow(t, v) == [c \in SensorColumns |-> IF c = "timestamp" THEN t ELSE v]
SensorRowChoices ==
    {mkSensorRow(-169, Num(40)),
     mkSensorRow(-25, Num(30)), mkSensorRow(-24, Num(10)),
     mkSensorRow(-23, Num(20)), mkSensorRow(-23, Null)}

mkPrediction(t, anomaly, fp, hi, rul) ==
    [timestamp |-> t, anomaly |-> anomaly, failure_probability |-> fp,
     health_index |-> hi, remaining_useful_life |-> rul]
PredictionTables ==
    {<<>>, <<mkPrediction(-2, Bool(TRUE), Num(55), Num(60), Num(100))>>}

SeqsUpTo(S, n) == UNION {[1..k -> S] : k \in 0..n}

\* applied: the service function applied last on its own, outside a request,
\* with its arguments and what it returned
VARIABLES now, sensor_history, predictions, clients, handlers, applied

vars == <<now, sensor_history, predictions, clients, handlers, applied>>

\* A handler whose result is a variable of the module, which every request
\* in flight sees
BecomesSharingResult(r, h) ==
    /\ handlers' = [q \in Requests |->
                       IF q = r THEN h ELSE [handlers[q] EXCEPT !.result = h.result]]
    /\ UNCHANGED <<now, sensor_history, predictions, clients, applied>>

\* The handler of request r goes on as h; nothing else changes
Becomes(r, h) ==
    /\ handlers' = [handlers EXCEPT ![r] = h]
    /\ UNCHANGED <<now, sensor_history, predictions, clients, applied>>

Table(name) == IF name = sensorHistoryTable THEN sensor_history ELSE predictions

\* No service function applied yet
NoCall ==
    [queryType |-> "", field |-> Undefined, timeRange |-> Undefined, fn |-> "",
     query |-> Undefined, data |-> Undefined, result |-> Undefined,
     previous |-> Undefined]

NewHandler ==
    [pc |-> "Idle", result |-> Undefined, data |-> Undefined, invoked |-> <<>>,
     calls |-> <<>>, res |-> <<>>, caught |-> Undefined, log |-> <<>>]

Init ==
    /\ now = 0
    /\ sensor_history \in SeqsUpTo(SensorRowChoices, MaxRows)
    /\ predictions \in PredictionTables
    /\ clients = {"r1"}
    /\ handlers = [r \in Requests |-> NewHandler]
    /\ applied = NoCall

\* The clock advances
Tick ==
    /\ now < MaxTicks
    /\ now' = now + 1
    /\ UNCHANGED <<sensor_history, predictions, clients, handlers, applied>>

\* POST /chat arrives: the handler runs to its first await
Receive(r) ==
    /\ r \in clients
    /\ handlers[r].pc = "Idle"
    /\ \E p \in Prompts :
          \E h \in {start(handlers[r], Str(p), now)} : Becomes(r, h)

ClassifierReplies(r) ==
    /\ handlers[r].pc = "Classifying"
    /\ \E content \in {Str(c) : c \in Completions} \cup {Null} :
          \E h \in {onAnalyzed(handlers[r], content, now)} : Becomes(r, h)

ClassifierFails(r) ==
    /\ handlers[r].pc = "Classifying"
    /\ \E e \in ModelErrors :
          \E h \in {onAnalyzeFailed(handlers[r], e)} : Becomes(r, h)

StoreReplies(r) ==
    /\ handlers[r].pc = "Executing"
    /\ \E q \in {handlers[r].calls[Len(handlers[r].calls)].request} :
          /\ selectKnown(q)
          /\ \E rows \in queryData(q, Table(q.table)) :
                \E h \in {onRows(handlers[r], rows, now)} : Becomes(r, h)

StoreFails(r) ==
    /\ handlers[r].pc = "Executing"
    /\ \E q \in {handlers[r].calls[Len(handlers[r].calls)].request} :
          \E e \in StoreErrors \cup (IF selectKnown(q) THEN {} ELSE {ColumnError}) :
             \E h \in {onStoreError(handlers[r], e)} : Becomes(r, h)

FormatterReplies(r) ==
    /\ handlers[r].pc = "Formatting"
    /\ \E content \in {Str(t) : t \in FormatterTexts} \cup {Null} :
          \E h \in {onFormatted(handlers[r], content)} : Becomes(r, h)

FormatterFails(r) ==
    /\ handlers[r].pc = "Formatting"
    /\ \E e \in ModelErrors :
          \E h \in {onFormatFailed(handlers[r], e)} : Becomes(r, h)

Next ==
    \/ Tick
    \/ \E r \in Requests :
          \/ Receive(r)
          \/ ClassifierReplies(r)
          \/ ClassifierFails(r)
          \/ StoreReplies(r)
          \/ StoreFails(r)
          \/ FormatterReplies(r)
          \/ FormatterFails(r)

Spec == Init /\ [][Next]_vars

\* Every request submitted arrives, and every outbound call gets an outcome,
\* an answer or an error
Fairness ==
    \A r \in Requests :
        /\ WF_vars(Receive(r))
        /\ WF_vars(ClassifierReplies(r) \/ ClassifierFails(r))
        /\ WF_vars(StoreReplies(r) \/ StoreFails(r))
        /\ WF_vars(FormatterReplies(r) \/ FormatterFails(r))

\* The same handlers over an empty and a one-row sensor table
LiveTables == {<<>>, <<mkSensorRow(-24, Num(10))>>}
LiveInit == Init /\ sensor_history \in LiveTables
FairSpec == LiveInit /\ [][Next]_vars /\ Fairness

\* Two requests in flight at once, over a one-row sensor table and a
\* classifier that answers with one of a few completions: free text, an
\* unknown code, an average, a maintenance check, a template whose window
\* is lost, a prediction summary
PairCompletions ==
    {"GENERAL:Hello there", "FOO:bar", "HISTORICAL_AVG:humidity:1days",
     "MAINTENANCE_CHECK", "AVERAGE_ALL_SENSORS:7days", "ANOMALY_SUMMARY::1days"}

PairInit ==
    /\ now = 0
    /\ sensor_history = <<mkSensorRow(-24, Num(10))>>
    /\ predictions \in PredictionTables
    /\ clients = Requests
    /\ handlers = [r \in Requests |-> NewHandler]
    /\ applied = NoCall

PairStep ==
    \A r \in Requests :
        handlers'[r].result \in {Undefined} \cup {Str(c) : c \in PairCompletions}

PairNext ==
    \/ Tick
    \/ \E r \in Requests :
          \/ Receive(r)
          \/ ClassifierReplies(r) /\ PairStep
          \/ ClassifierFails(r)
          \/ StoreReplies(r)
          \/ StoreFails(r)
          \/ FormatterReplies(r)
          \/ FormatterFails(r)

PairSpec == PairInit /\ [][PairNext]_vars

(***************************************************************************)
(* The service functions applied on their own: a table of one of the two   *)
(* kinds is drawn, the other left empty, and any service function of the   *)
(* exports is called with any of a few arguments.                          *)
(***************************************************************************)
MaxServiceRows == 3
MaxPredictions == 10

\* A reading stamped one hour after the query: seedData.js writes a row for
\* each hour of the current day, the hours to come included
FutureRow == mkSensorRow(1, Num(50))
ServiceRowChoices == SensorRowChoices \cup {FutureRow}

\* A reading whose four monitored channels are given, the others at rest
mkReading(t, vibration, gas, diff, power) ==
    [c \in SensorColumns |->
        CASE c = "timestamp" -> t
          [] c = "compressor_vibration" -> vibration
          [] c = "gas_leakage_level" -> gas
          [] c = "temperature_diff" -> diff
          [] c = "power_consumption" -> power
          [] OTHER -> Num(0)]

\* Readings at and next to each threshold of checkMaintenance
Readings ==
    {mkReading(-1, v, g, d, p) :
        v \in {Num(10), Num(11), Null}, g \in {Num(50), Num(51)},
        d \in {Num(-26), Num(-25), Num(25), Num(26)}, p \in {Num(500), Num(501)}}

SensorTables ==
    SeqsUpTo(ServiceRowChoices, MaxServiceRows) \cup {<<r>> : r \in Readings}

\* The instant of the i-th inference run: the runs are stored oldest first,
\* but for one more than eight days old, one stamped after the query and one stamped
\* as the run before it
stampOf(i) ==
    CASE i = 4 -> -200
      [] i = 5 -> 1
      [] i = 8 -> -13
      [] OTHER -> i - 20

\* n inference runs of a healthy device, those of A flagged anomalous
runs(n, A) ==
    [i \in 1..n |->
        mkPrediction(stampOf(i), Bool(i \in A), Num(10), Num(90), Num(500))]

\* Predictions at and next to each threshold of checkPredictionMaintenance
Verdicts ==
    {mkPrediction(-1, Bool(a), Num(fp), Num(hi), Num(rul)) :
        a \in BOOLEAN, fp \in {0, 40, 41, 100}, hi \in {0, 49, 50, 69, 70, 100},
        rul \in {0, 47, 48, 167, 168}}

ServicePredictionTables ==
    UNION {{runs(n, A) : A \in SUBSET (1..n)} : n \in 0..MaxPredictions}
    \cup {<<v>> : v \in Verdicts}

ServiceQueryTypes ==
    {"CURRENT_VALUE", "HISTORICAL_AVG", "HISTORICAL_MAX", "HISTORICAL_MIN", "TREND",
     "AVERAGE_ALL_SENSORS", "TIME_OF_HIGHEST", "VIBRATION_DETAILS",
     "MAINTENANCE_CHECK", "PREDICTION_HISTORY", "ANOMALY_SUMMARY",
     "PREDICTION_MAINTENANCE"}
ServiceFields == {Str("humidity"), Str("health_index")}
ServiceRanges == {Str("1days"), Str("7days"), Str("30days")}

ServiceInit ==
    /\ now = 0
    /\ \/ sensor_history \in SensorTables /\ predictions = <<>>
       \/ sensor_history = <<>> /\ predictions \in ServicePredictionTables
    /\ clients = {}
    /\ handlers = [r \in Requests |-> NewHandler]
    /\ applied = NoCall

\* What the call of a case of the switch returns over the rows of a table,
\* for each answer the store may give
outcomes(queryType, field, timeRange, nowT, rows) ==
    Bind(dispatch(queryType, field, timeRange, nowT), LAMBDA o :
        IF o.kind = "call" /\ o.built.ok /\ selectKnown(o.built.value)
        THEN {[queryType |-> queryType, field |-> field, timeRange |-> timeRange,
               fn |-> o.fn, query |-> o.built.value, data |-> Held(data),
               result |-> serviceResult(o.fn, field, data),
               previous |-> Undefined] :
                 data \in queryData(o.built.value, rows)}
        ELSE {})

tableOf(queryType) ==
    IF queryType \in {"PREDICTION_LATEST", "PREDICTION_HISTORY", "ANOMALY_SUMMARY",
                      "PREDICTION_MAINTENANCE"}
    THEN predictionsTable ELSE sensorHistoryTable

\* A service function is called and returns (one call a run: the functions
\* keep nothing from one call to the next)
Invoke(queryType) ==
    /\ applied = NoCall
    /\ \E field \in ServiceFields, timeRange \in ServiceRanges :
          \E a \in outcomes(queryType, field, timeRange, now,
                            Table(tableOf(queryType))) : applied' = a
    /\ UNCHANGED <<now, sensor_history, predictions, clients, handlers>>

\* Server.js, the single-file server, has a getHistoricalAverage of its own:
\* the same query, then the sum of parseFloat(record[field] || 0) over the
\* number of rows
Server_getHistoricalAverageResult(field, data) ==
    IF Len(data) > 0
    THEN <<[average |->
              Ratio(sumSeq([i \in 1..Len(data) |->
                               numberOrZero(prop(data[i], fieldText(field)))]),
                    Len(data))]>>
    ELSE <<>>

\* getHistoricalAverage of Server.js is called and returns
InvokeServer ==
    /\ applied = NoCall
    /\ \E field \in ServiceFields, timeRange \in ServiceRanges :
          \E built \in {getHistoricalAverageQuery(field, parseInt(timeRange), now)} :
             /\ built.ok
             /\ selectKnown(built.value)
             /\ \E data \in queryData(built.value, sensor_history) :
                   applied' =
                       [queryType |-> "HISTORICAL_AVG", field |-> field,
                        timeRange |-> timeRange,
                        fn |-> "Server.getHistoricalAverage",
                        query |-> built.value, data |-> Held(data),
                        result |->
                            Return(Server_getHistoricalAverageResult(field, data)),
                        previous |-> Undefined]
    /\ UNCHANGED <<now, sensor_history, predictions, clients, handlers>>

\* The latest value is read a second time, the table as it was: applied
\* keeps what the first call returned as previous
Repeat ==
    /\ applied.queryType = "CURRENT_VALUE"
    /\ applied.previous = Undefined
    /\ \E a \in outcomes(applied.queryType, applied.field, applied.timeRange, now,
                          Table(tableOf(applied.queryType))) :
          applied' = [a EXCEPT !.previous = Held(applied.result)]
    /\ UNCHANGED <<now, sensor_history, predictions, clients, handlers>>

ServiceNext ==
    \/ \E queryType \in ServiceQueryTypes : Invoke(queryType)
    \/ InvokeServer
    \/ Repeat

ServiceSpec == ServiceInit /\ [][ServiceNext]_vars

(***************************************************************************)
(* Properties.                                                             *)
(***************************************************************************)
Terminal == {"GeneralReply", "Clarified", "Done", "Failed"}
KnownCodes ==
    {"CURRENT_VALUE", "HISTORICAL_AVG", "HISTORICAL_MAX", "HISTORICAL_MIN",
     "TREND", "STATUS", "AVERAGE_ALL_SENSORS", "TIME_OF_HIGHEST",
     "VIBRATION_DETAILS", "MAINTENANCE_CHECK", "PREDICTION_LATEST",
     "PREDICTION_HISTORY", "ANOMALY_SUMMARY", "PREDICTION_MAINTENANCE"}

Analyzed(r) == handlers[r].result # Undefined
IsGeneral(text) == startsWith(text, "GENERAL:")
\* The first colon-separated token of text is a known operation code
Recognized(text) ==
    \E k \in KnownCodes : text = k \/ startsWith(text, k \o ":")

CallsTo(r, to) == {i \in 1..Len(handlers[r].calls) : handlers[r].calls[i].to = to}
OnlyClassifierCalled(r) == Len(handlers[r].calls) = 1 /\ handlers[r].calls[1].to = "classifier"
Sent(r, status, body) == handlers[r].res = <<[status |-> status, body |-> body]>>

AllWhite(s) == \A i \in 1..Len(s) : CharAt(s, i) \in WhiteSpace
\* body is text without the white space at its two ends
TrimmedFrom(body, text) ==
    /\ body = "" \/ (CharAt(body, 1) \notin WhiteSpace
                     /\ CharAt(body, Len(body)) \notin WhiteSpace)
    /\ \E lead \in 0..Len(text) :
          /\ lead + Len(body) <= Len(text)
          /\ AllWhite(SubSeq(text, 1, lead))
          /\ SubSeq(text, lead + 1, lead + Len(body)) = body
          /\ AllWhite(SubSeq(text, lead + Len(body) + 1, Len(text)))

\* C1: whenever the classifier's output starts with "GENERAL:", the request
\* is answered once, with status 200 and exactly the text after the prefix
\* with the white space at its ends dropped (later colons kept), and the
\* classifier call is the only outbound call the request ever makes.
C1_GeneralShortCircuit ==
    \A r \in Requests :
        (Analyzed(r) /\ IsGeneral(handlers[r].result.val)) =>
            /\ handlers[r].pc = "GeneralReply"
            /\ Len(handlers[r].res) = 1
            /\ handlers[r].res[1].status = 200
            /\ LET rest == SubSeq(handlers[r].result.val, 9, Len(handlers[r].result.val))
               IN  /\ handlers[r].result.val = "GENERAL:" \o rest
                   /\ TrimmedFrom(handlers[r].res[1].body, rest)
            /\ OnlyClassifierCalled(r)

C1_Witness ==
    \E r \in Requests :
        /\ handlers[r].pc = "GeneralReply"
        /\ handlers[r].result.val = "GENERAL: see a:b"
        /\ Sent(r, 200, "see a:b")

\* C2: a classifier output that does not start with "GENERAL:" and whose
\* first colon-separated token is no known operation code is answered with
\* the fixed clarification message and status 200, and neither the store
\* nor the formatter is called.
C2_UnrecognizedOperation ==
    \A r \in Requests :
        (Analyzed(r) /\ ~IsGeneral(handlers[r].result.val) /\ ~Recognized(handlers[r].result.val)) =>
            /\ handlers[r].pc = "Clarified"
            /\ Sent(r, 200, "I'm not sure how to answer that. Could you rephrase your question?")
            /\ OnlyClassifierCalled(r)

C2_Witness ==
    \E r \in Requests :
        /\ handlers[r].pc = "Clarified"
        /\ handlers[r].result.val = "FOO:bar"
        /\ Len(handlers[r].res) = 1

\* C3: when the classifier call, the store query or the formatter call fails,
\* the request ends with status 500 and the fixed apology, and the failed
\* call is the last outbound call of the request: nothing is retried.
CallFailed(r, i) == handlers[r].calls[i].outcome = "error"
C3_FailureEndsInApology ==
    \A r \in Requests : \A i \in 1..Len(handlers[r].calls) :
        CallFailed(r, i) =>
            /\ handlers[r].pc = "Failed"
            /\ Sent(r, 500, "Sorry, I encountered an error processing your request. Please try again.")
            /\ i = Len(handlers[r].calls)

C3_Witness ==
    \E r \in Requests :
        /\ handlers[r].pc = "Failed"
        /\ Len(handlers[r].calls) = 2
        /\ handlers[r].calls[2].to = "store"
        /\ CallFailed(r, 2)
        /\ Len(handlers[r].res) = 1

\* The state of the orchestrator's state machine a handler is in: the
\* clarification of an unrecognized operation ends in Failed
OrchestratorState(r) == IF handlers[r].pc = "Clarified" THEN "Failed" ELSE handlers[r].pc
Responded(r) ==
    /\ OrchestratorState(r) \in {"GeneralReply", "Done", "Failed"}
    /\ Len(handlers[r].res) = 1
    /\ handlers[r].res[1].status \in {200, 500}
    /\ Len(handlers[r].res[1].body) >= 0

\* C4: whatever the classifier returns and however the store and formatter
\* calls end, every request that arrived reaches a terminal state
\* (GeneralReply, Done or Failed) in which one response body has been sent;
\* no handler stops in between or ends without a response.
C4_EveryRequestAnswered ==
    \A r \in Requests : (handlers[r].pc # "Idle") ~> Responded(r)

C4_Witness ==
    \E r \in Requests :
        /\ Responded(r)
        /\ handlers[r].pc = "Failed"
        /\ handlers[r].caught = RangeError
        /\ handlers[r].result.val = "HISTORICAL_AVG:humidity:week"

CallsOf(r) == handlers[r].calls
PendingCalls(r) == {i \in 1..Len(CallsOf(r)) : CallsOf(r)[i].outcome = "pending"}
CallOrder == <<"classifier", "store", "formatter">>

\* C5: within a request the calls follow one another: a store query is
\* issued only after the classifier call ended with an answer, the formatter
\* call only after the store query ended with an answer, every call but the
\* last has ended, and so at most one outbound call is in flight.
C5_StrictSequencing ==
    \A r \in Requests :
        /\ Cardinality(PendingCalls(r)) <= 1
        /\ Len(CallsOf(r)) <= 3
        /\ \A i \in 1..Len(CallsOf(r)) :
              /\ CallsOf(r)[i].to = CallOrder[i]
              /\ i < Len(CallsOf(r)) =>
                    /\ CallsOf(r)[i].outcome = "ok"
                    /\ CallsOf(r)[i].at <= CallsOf(r)[i + 1].at

C5_Witness ==
    \E r \in Requests :
        /\ handlers[r].pc = "Formatting"
        /\ Len(CallsOf(r)) = 3
        /\ PendingCalls(r) = {3}
        /\ CallsOf(r)[1].at < CallsOf(r)[2].at

\* What the service functions return when no row matches: an empty array,
\* an empty object, null or the heuristics' no-data verdicts
EmptyResults ==
    {<<>>, Null,
     [total_predictions |-> 0, anomaly_count |-> 0,
      anomaly_percentage |-> "0.0", anomaly_timestamps |-> <<>>],
     [needed |-> FALSE, reason |-> "No sensor data available"],
     [maintenance_needed |-> FALSE, confidence |-> 0,
      reasons |-> <<"No prediction data available">>,
      remaining_useful_life |-> Null, health_index |-> Null,
      failure_probability |-> Null, anomaly_detected |-> FALSE]}

StoreAnsweredEmpty(r) ==
    /\ Len(CallsOf(r)) >= 2
    /\ CallsOf(r)[2].outcome = "ok"
    /\ Len(CallsOf(r)[2].reply.value) = 0

\* C6: when the store answers a recognized operation's query with no rows,
\* the handler goes on to the formatter with the (empty) result; if the
\* formatter answers with a text the request ends with status 200 and that
\* text trimmed, and it ends in Failed only when the formatter call gave no
\* text.
C6_EmptyIsNotAnError ==
    \A r \in Requests :
        StoreAnsweredEmpty(r) =>
            /\ Len(CallsOf(r)) = 3
            /\ handlers[r].data.value \in EmptyResults
            /\ CallsOf(r)[3].request.data = handlers[r].data.value
            /\ handlers[r].pc \in {"Formatting", "Done", "Failed"}
            /\ (CallsOf(r)[3].outcome = "ok" /\ CallsOf(r)[3].reply.type = "string") =>
                    /\ handlers[r].pc = "Done"
                    /\ Len(handlers[r].res) = 1
                    /\ handlers[r].res[1].status = 200
                    /\ TrimmedFrom(handlers[r].res[1].body, CallsOf(r)[3].reply.val)
            /\ handlers[r].pc = "Failed" =>
                    \/ CallsOf(r)[3].outcome = "error"
                    \/ CallsOf(r)[3].outcome = "ok" /\ CallsOf(r)[3].reply.type # "string"

C6_Witness ==
    \E r \in Requests :
        /\ StoreAnsweredEmpty(r)
        /\ handlers[r].result.val = "HISTORICAL_AVG:humidity:7days"
        /\ handlers[r].data.value = <<>>
        /\ handlers[r].pc = "Done"
        /\ Sent(r, 200, "No data.")

\* C7: whatever error the handler caught (its kind and message are logged),
\* the response is the same: status 500 with the fixed apology, which holds
\* nothing of the error.  Two runs that differ only in the error's content
\* therefore send identical responses.
C7_ErrorContentNotExposed ==
    \A r \in Requests :
        handlers[r].caught # Undefined =>
            /\ handlers[r].res =
                 <<[status |-> 500,
                    body |-> "Sorry, I encountered an error processing your request. Please try again."]>>
            /\ handlers[r].res[1].body # handlers[r].caught.message
            /\ \A i \in 1..Len(handlers[r].log) :
                  handlers[r].res[1].body # handlers[r].log[i].message

C7_Witness ==
    \E r \in Requests :
        /\ handlers[r].caught = [name |-> "PostgrestError", message |-> "JWT expired"]
        /\ handlers[r].log = <<handlers[r].caught, handlers[r].caught>>
        /\ Len(handlers[r].res) = 1

\* The service function of each operation code
FunctionOfCode ==
    [CURRENT_VALUE |-> "getCurrentValue",
     HISTORICAL_AVG |-> "getHistoricalAverage",
     HISTORICAL_MAX |-> "getHistoricalMax",
     HISTORICAL_MIN |-> "getHistoricalMin",
     TREND |-> "getTrendData",
     STATUS |-> "getStatus",
     AVERAGE_ALL_SENSORS |-> "getAverageOfAllSensors",
     TIME_OF_HIGHEST |-> "getTimeOfHighestValue",
     VIBRATION_DETAILS |-> "getVibrationDetails",
     MAINTENANCE_CHECK |-> "checkMaintenance",
     PREDICTION_LATEST |-> "getLatestPrediction",
     PREDICTION_HISTORY |-> "getPredictionHistory",
     ANOMALY_SUMMARY |-> "getAnomalySummary",
     PREDICTION_MAINTENANCE |-> "checkPredictionMaintenance"]

HasCode(text, k) == text = k \/ startsWith(text, k \o ":")

\* C8: a request whose classifier output has the operation code k invokes
\* the service function of k once and no other (none at all when building
\* TREND's argument already threw), every store query is that function's,
\* and a request without a known code invokes none.
C8_DispatchCorrectness ==
    \A r \in Requests :
        Analyzed(r) =>
            /\ \A k \in KnownCodes :
                  HasCode(handlers[r].result.val, k) =>
                      \/ handlers[r].invoked = <<FunctionOfCode[k]>>
                      \/ /\ k = "TREND"
                         /\ handlers[r].invoked = <<>>
                         /\ handlers[r].caught = TypeError
            /\ ~Recognized(handlers[r].result.val) => handlers[r].invoked = <<>>
            /\ \A i \in CallsTo(r, "store") :
                  /\ i = 2
                  /\ handlers[r].invoked = <<CallsOf(r)[i].fn>>

C8_Witness ==
    \E r \in Requests :
        /\ handlers[r].pc = "Done"
        /\ handlers[r].result.val = "CURRENT_VALUE:freezer_temperature"
        /\ handlers[r].invoked = <<"getCurrentValue">>
        /\ CallsOf(r)[2].fn = "getCurrentValue"

\* The response templates of the system prompt, with the window in days (or
\* hours, for TREND) of those that have one
DocumentedTemplates ==
    {"CURRENT_VALUE:freezer_temperature", "HISTORICAL_AVG:humidity:7days",
     "HISTORICAL_MAX:fridge_temperature:1days", "TREND:power_consumption:24hours",
     "AVERAGE_ALL_SENSORS:7days", "TIME_OF_HIGHEST:compressor_vibration:30days",
     "VIBRATION_DETAILS:7days", "MAINTENANCE_CHECK", "PREDICTION_LATEST",
     "PREDICTION_HISTORY:failure_probability:7days", "ANOMALY_SUMMARY:7days",
     "PREDICTION_MAINTENANCE"}
TemplateWindowHours ==
    [t \in DocumentedTemplates |->
        CASE t = "HISTORICAL_MAX:fridge_temperature:1days" -> 24
          [] t = "TREND:power_consumption:24hours" -> 24
          [] t = "TIME_OF_HIGHEST:compressor_vibration:30days" -> 720
          [] t \in {"HISTORICAL_AVG:humidity:7days", "AVERAGE_ALL_SENSORS:7days",
                    "VIBRATION_DETAILS:7days", "ANOMALY_SUMMARY:7days",
                    "PREDICTION_HISTORY:failure_probability:7days"} -> 168
          [] OTHER -> 0]

\* C9: a classifier output equal to a template of the system prompt is
\* dispatched to a store query, with the template's window where it has one,
\* and the request ends in Failed only when the store or the formatter call
\* gave no usable answer.
C9_TemplatesExecutable ==
    \A r \in Requests :
        (Analyzed(r) /\ handlers[r].result.val \in DocumentedTemplates) =>
            /\ Len(CallsOf(r)) >= 2
            /\ TemplateWindowHours[handlers[r].result.val] > 0 =>
                  CallsOf(r)[2].request.gte =
                      Num(CallsOf(r)[2].at - TemplateWindowHours[handlers[r].result.val])
            /\ handlers[r].pc = "Failed" =>
                  \E i \in 2..Len(CallsOf(r)) :
                      \/ CallsOf(r)[i].outcome = "error"
                      \/ CallsOf(r)[i].reply = Null

\* The field-less windowed template fails before any store query
C9_Witness ==
    \E r \in Requests :
        /\ handlers[r].pc = "Failed"
        /\ Analyzed(r)
        /\ handlers[r].result.val = "AVERAGE_ALL_SENSORS:7days"
        /\ handlers[r].caught = RangeError
        /\ handlers[r].invoked = <<"getAverageOfAllSensors">>
        /\ Len(CallsOf(r)) = 1
        /\ Sent(r, 500, ApologyText)

\* The HISTORICAL_AVG requests of the model on the humidity channel, with
\* their number of days
AverageDays ==
    [t \in {"HISTORICAL_AVG:humidity:1days", "HISTORICAL_AVG:humidity:7days"} |->
        IF t = "HISTORICAL_AVG:humidity:1days" THEN 1 ELSE 7]

RECURSIVE SumOver(_, _)
SumOver(rows, idx) ==
    IF idx = {} THEN 0
    ELSE LET i == CHOOSE j \in idx : TRUE
         IN  rows[i]["humidity"].val + SumOver(rows, idx \ {i})

\* C10: the average HISTORICAL_AVG returns for d days is taken over exactly
\* the non-null readings of the rows whose timestamp is not earlier than the
\* instant of the query minus d days: an earlier row does not contribute, a
\* row at that very instant does.
C10_WindowLowerBound ==
    \A r \in Requests :
        (/\ Analyzed(r)
         /\ handlers[r].result.val \in DOMAIN AverageDays
         /\ handlers[r].data # Undefined) =>
            LET since == CallsOf(r)[2].at - 24 * AverageDays[handlers[r].result.val]
                inWindow == {i \in 1..Len(sensor_history) :
                                /\ sensor_history[i]["timestamp"] >= since
                                /\ sensor_history[i]["humidity"] # Null}
            IN  handlers[r].data.value =
                    IF inWindow = {} THEN <<>>
                    ELSE <<[average |-> Ratio(SumOver(sensor_history, inWindow),
                                              Cardinality(inWindow))]>>

C10_Witness ==
    \E r \in Requests :
        /\ handlers[r].pc = "Done"
        /\ handlers[r].result.val = "HISTORICAL_AVG:humidity:1days"
        /\ CallsOf(r)[2].at = 0
        /\ sensor_history = <<mkSensorRow(-25, Num(30)), mkSensorRow(-24, Num(10))>>
        /\ handlers[r].data.value = <<[average |-> Ratio(10, 1)]>>

(***************************************************************************)
(* Properties of the service functions applied on their own.               *)
(***************************************************************************)
WindowedQueryTypes ==
    {"HISTORICAL_AVG", "HISTORICAL_MAX", "HISTORICAL_MIN", "TREND",
     "AVERAGE_ALL_SENSORS", "TIME_OF_HIGHEST", "VIBRATION_DETAILS",
     "PREDICTION_HISTORY", "ANOMALY_SUMMARY"}

\* The rows stamped no later than t
upTo(rows, t) ==
    LET keep(row) == row["timestamp"] <= t
    IN  SelectSeq(rows, keep)

\* C11: what a windowed operation returns is what it returns over the rows
\* of its table stamped no later than the instant of the query: a row with a
\* later timestamp never contributes to the result.
C11_WindowUpperBound ==
    (/\ applied.queryType \in WindowedQueryTypes
     /\ applied.fn = FunctionOfCode[applied.queryType]) =>
        applied \in outcomes(applied.queryType, applied.field, applied.timeRange,
                             now, upTo(Table(tableOf(applied.queryType)), now))

\* A one-day average that counts the reading stamped an hour after the query
C11_Witness ==
    /\ applied.fn = "getHistoricalAverage"
    /\ applied.field = Str("humidity")
    /\ applied.timeRange = Str("1days")
    /\ sensor_history = <<mkSensorRow(-23, Num(20)), FutureRow>>
    /\ applied.result = Return(<<[average |-> Ratio(70, 2)]>>)

\* The two implementations of getHistoricalAverage: the service's and
\* Server.js's
AverageFunctions == {"getHistoricalAverage", "Server.getHistoricalAverage"}

\* The rows of an answer whose field holds a number
valid(data, field) ==
    {i \in 1..Len(data) : prop(data[i], fieldText(field)).type = "number"}

\* C12: getHistoricalAverage never throws; over a window with no row, or
\* whose rows all hold null for the field, it returns the empty array; and
\* no average it returns has a zero denominator.
C12_EmptyWindowSafety ==
    applied.fn \in AverageFunctions =>
        /\ applied.result.ok
        /\ valid(applied.data.value, applied.field) = {} =>
               applied.result.value = <<>>
        /\ \A i \in 1..Len(applied.result.value) :
               applied.result.value[i].average.den > 0

\* Server.js's average over a window of one reading, null: 0, not the empty
\* array
C12_Witness ==
    /\ applied.fn = "Server.getHistoricalAverage"
    /\ applied.field = Str("humidity")
    /\ applied.timeRange = Str("1days")
    /\ sensor_history = <<mkSensorRow(-23, Null)>>
    /\ applied.result = Return(<<[average |-> Ratio(0, 1)]>>)

\* The service's getHistoricalAverage alone is safe over empty windows
ServiceAverageSafe ==
    applied.fn = "getHistoricalAverage" =>
        /\ applied.result.ok
        /\ valid(applied.data.value, applied.field) = {} =>
               applied.result.value = <<>>
        /\ \A i \in 1..Len(applied.result.value) :
               applied.result.value[i].average.den > 0

\* The average of the numbers the field holds in the rows of an answer
\* (humidity is the one sensor channel the calls of the model name)
meanOfValid(data, field) ==
    Ratio(SumOver(data, valid(data, field)), Cardinality(valid(data, field)))

\* C13: the average getHistoricalAverage returns is the sum of the non-null
\* values of the field over their number; a null value counts in neither
\* (10, 20, 30 give 60/3, and 10, null, 30 give 40/2).
C13_MissingIsAbsent ==
    (/\ applied.fn \in AverageFunctions
     /\ valid(applied.data.value, applied.field) # {}) =>
        applied.result =
            Return(<<[average |-> meanOfValid(applied.data.value, applied.field)]>>)

\* Server.js's average of 10, null and 30: 40/3
C13_Witness ==
    /\ applied.fn = "Server.getHistoricalAverage"
    /\ applied.field = Str("humidity")
    /\ applied.timeRange = Str("7days")
    /\ sensor_history =
          <<mkSensorRow(-24, Num(10)), mkSensorRow(-23, Null), mkSensorRow(-25, Num(30))>>
    /\ applied.result = Return(<<[average |-> Ratio(40, 3)]>>)

\* The service's getHistoricalAverage alone leaves null values out
ServiceAverageExact ==
    (/\ applied.fn = "getHistoricalAverage"
     /\ valid(applied.data.value, applied.field) # {}) =>
        applied.result =
            Return(<<[average |-> meanOfValid(applied.data.value, applied.field)]>>)

\* The service's averages of 10, 20, 30 and of 10, null, 30
ServiceAverageExamples ==
    /\ applied.fn = "getHistoricalAverage"
    /\ applied.timeRange = Str("7days")
    /\ \/ /\ sensor_history =
                <<mkSensorRow(-24, Num(10)), mkSensorRow(-23, Num(20)),
                  mkSensorRow(-25, Num(30))>>
          /\ applied.result = Return(<<[average |-> Ratio(60, 3)]>>)
       \/ /\ sensor_history =
                <<mkSensorRow(-24, Num(10)), mkSensorRow(-23, Null),
                  mkSensorRow(-25, Num(30))>>
          /\ applied.result = Return(<<[average |-> Ratio(40, 2)]>>)

\* The rows a query over the last `days` days reads: those stamped no
\* earlier than the instant of the query minus the days
readRows(rows, nowT, days) ==
    LET keep(row) == row["timestamp"] >= nowT - HoursPerDay * days
    IN  SelectSeq(rows, keep)

appliedWindow == readRows(sensor_history, now, parseInt(applied.timeRange).val)

numbersOf(rows, column) ==
    {rows[i][column].val : i \in {j \in 1..Len(rows) : rows[j][column].type = "number"}}
allNumbers(rows, column) ==
    \A i \in 1..Len(rows) : rows[i][column].type = "number"
greatest(S) == CHOOSE m \in S : \A x \in S : x <= m
least(S) == CHOOSE m \in S : \A x \in S : m <= x

\* The record is the projection of a row of the window on timestamp and column
fromRowOf(record, rows, column) ==
    /\ DOMAIN record = {"timestamp", column}
    /\ \E i \in 1..Len(rows) :
          /\ rows[i]["timestamp"] = record["timestamp"]
          /\ rows[i][column] = record[column]

includes(s, pat) == findAt(s, pat, 1) > 0

\* The rows no row of the table is more recent than
latestRows(rows) ==
    {rows[i] : i \in {j \in 1..Len(rows) :
                        \A k \in 1..Len(rows) :
                            rows[k]["timestamp"] <= rows[j]["timestamp"]}}

\* The monitored channels, each with the words that name it in a reason
ChannelWords ==
    [compressor_vibration |-> "compressor vibration",
     gas_leakage_level |-> "gas leakage",
     temperature_diff |-> "temperature difference",
     power_consumption |-> "power consumption"]

\* The channels of a reading that are over their documented thresholds
exceeded(row) ==
    {c \in DOMAIN ChannelWords :
        /\ row[c].type = "number"
        /\ CASE c = "compressor_vibration" -> row[c].val > 10
             [] c = "gas_leakage_level" -> row[c].val > 50
             [] c = "temperature_diff" -> row[c].val > 25 \/ row[c].val < -25
             [] c = "power_consumption" -> row[c].val > 500}

\* C15: with a latest reading, checkMaintenance answers needed exactly when
\* a monitored channel is strictly over its threshold (10, 50, 25 in
\* absolute value, 500); its reason names the channels that are over and no
\* other, and is "All parameters within normal ranges" when none is.  With
\* no reading it answers not needed, "No sensor data available".
C15_ThresholdMaintenance ==
    applied.fn = "checkMaintenance" =>
        IF Len(sensor_history) = 0
        THEN applied.result =
                Return([needed |-> FALSE, reason |-> "No sensor data available"])
        ELSE /\ applied.result.ok
             /\ applied.result.value.data \in latestRows(sensor_history)
             /\ LET over == exceeded(applied.result.value.data)
                     reason == applied.result.value.reason
                IN  /\ applied.result.value.needed = (over # {})
                    /\ \A c \in DOMAIN ChannelWords :
                          includes(reason, ChannelWords[c]) <=> c \in over
                    /\ over = {} <=> reason = "All parameters within normal ranges"

\* A reading with the vibration over its threshold and every other channel
\* at its own: needed, for the vibration alone
C15_Witness ==
    /\ applied.fn = "checkMaintenance"
    /\ sensor_history = <<mkReading(-1, Num(11), Num(50), Num(-25), Num(500))>>
    /\ applied.result.value.needed = TRUE
    /\ applied.result.value.reason = "High compressor vibration (11.00 mm/s)"

\* C16: with a latest prediction, checkPredictionMaintenance answers
\* maintenance_needed exactly when the prediction's anomaly is true, or its
\* failure_probability is over 0.4, or its health_index under 50, or its
\* remaining_useful_life under 48; with no prediction it answers not needed,
\* confidence 0 and the single reason "No prediction data available".
C16_PredictionDecision ==
    applied.fn = "checkPredictionMaintenance" =>
        /\ applied.result.ok
        /\ IF Len(predictions) = 0
           THEN /\ applied.result.value.maintenance_needed = FALSE
                /\ applied.result.value.confidence = 0
                /\ applied.result.value.reasons = <<"No prediction data available">>
           ELSE \E p \in latestRows(predictions) :
                   /\ applied.result.value.last_prediction_time = p["timestamp"]
                   /\ applied.result.value.maintenance_needed =
                         (\/ p["anomaly"] = Bool(TRUE)
                          \/ p["failure_probability"].val > 40
                          \/ p["health_index"].val < 50
                          \/ p["remaining_useful_life"].val < 48)

\* A prediction with every field at its threshold but the health index,
\* under 70 and not under 50: not needed
C16_Witness ==
    /\ applied.fn = "checkPredictionMaintenance"
    /\ predictions = <<mkPrediction(-1, Bool(FALSE), Num(40), Num(50), Num(48))>>
    /\ applied.result.value.maintenance_needed = FALSE

\* A prediction in which the anomaly flag alone trips: no other field is
\* beyond a threshold of the decision or of the reasons
AnomalyOnly(p) ==
    /\ p["anomaly"] = Bool(TRUE)
    /\ p["failure_probability"].val <= 40
    /\ p["health_index"].val >= 70
    /\ p["remaining_useful_life"].val >= 168

\* The prediction a call of checkPredictionMaintenance decided on
decidedOn ==
    /\ applied.fn = "checkPredictionMaintenance"
    /\ Len(applied.data.value) > 0

\* C17, as claimed: a prediction in which only the anomaly flag trips is
\* answered with maintenance_needed true and an empty list of reasons.
C17_NeededWithoutReasons ==
    (decidedOn /\ AnomalyOnly(applied.data.value[1])) =>
        /\ applied.result.ok
        /\ applied.result.value.maintenance_needed = TRUE
        /\ applied.result.value.reasons = <<>>

\* C17, amended: a prediction in which only the anomaly flag trips is
\* answered with maintenance_needed true and the one reason "Anomaly
\* detected in system operation"; no prediction is answered with
\* maintenance_needed true and an empty list of reasons.
C17_NeededHasReasons ==
    decidedOn =>
        /\ applied.result.ok
        /\ applied.result.value.maintenance_needed =>
               Len(applied.result.value.reasons) > 0
        /\ AnomalyOnly(applied.data.value[1]) =>
               /\ applied.result.value.maintenance_needed = TRUE
               /\ applied.result.value.reasons =
                     <<"Anomaly detected in system operation">>

\* The call decides on a prediction whose anomaly flag alone trips
C17_Witness ==
    /\ decidedOn
    /\ predictions = <<mkPrediction(-1, Bool(TRUE), Num(40), Num(70), Num(168))>>
    /\ applied.result.value.maintenance_needed = TRUE
    /\ Len(applied.result.value.reasons) = 1

\* The predictions a summary over the time range of the call reads
summarized == readRows(predictions, now, parseInt(applied.timeRange).val)

anomalous(rows) == {i \in 1..Len(rows) : rows[i]["anomaly"] = Bool(TRUE)}

\* The number of tenths nearest to 100 * count / total (0 for no row)
nearestTenths(count, total) ==
    IF total = 0 THEN 0
    ELSE CHOOSE q \in 0..1000 :
            /\ 2 * abs(q * total - 1000 * count) <= total
            /\ 2 * abs((q + 1) * total - 1000 * count) > total

\* C18: getAnomalySummary returns the number of rows it read as
\* total_predictions, the number of those whose anomaly is true as
\* anomaly_count, and as anomaly_percentage 100 * anomaly_count /
\* total_predictions written with one decimal, "0.0" when it read no row.
C18_AnomalySummaryCounts ==
    applied.fn = "getAnomalySummary" =>
        LET total == Len(summarized)
            count == Cardinality(anomalous(summarized))
            tenths == nearestTenths(count, total)
            v == applied.result.value
        IN  /\ applied.result.ok
            /\ v.total_predictions = total
            /\ v.anomaly_count = count
            /\ v.anomaly_count <= v.total_predictions
            /\ v.anomaly_percentage =
                  numberToString(tenths \div 10) \o "." \o DigitChar[(tenths % 10) + 1]
            /\ total = 0 => v.anomaly_percentage = "0.0"

\* Ten runs read, three of them anomalous: "30.0"
C18_Witness ==
    /\ applied.fn = "getAnomalySummary"
    /\ applied.timeRange = Str("30days")
    /\ predictions = runs(10, {2, 5, 9})
    /\ applied.result.value.total_predictions = 10
    /\ applied.result.value.anomaly_count = 3
    /\ applied.result.value.anomaly_percentage = "30.0"

\* How many times t is listed, and how many anomalous rows read are stamped t
listed(ts, t) == Cardinality({i \in 1..Len(ts) : ts[i] = t})
stamped(rows, t) == Cardinality({i \in anomalous(rows) : rows[i]["timestamp"] = t})

\* The list holds the smaller of 5 and the number of anomalous rows, only
\* timestamps of anomalous rows, each no more often than rows bear it, and
\* an anomalous row left out is no more recent than any listed one
MostRecentAnomalies(ts, rows) ==
    /\ Len(ts) = IF Cardinality(anomalous(rows)) < 5
                 THEN Cardinality(anomalous(rows)) ELSE 5
    /\ \A i \in 1..Len(ts) : listed(ts, ts[i]) <= stamped(rows, ts[i])
    /\ \A j \in anomalous(rows) :
          listed(ts, rows[j]["timestamp"]) < stamped(rows, rows[j]["timestamp"]) =>
              \A i \in 1..Len(ts) : rows[j]["timestamp"] <= ts[i]

\* C19, as claimed: anomaly_timestamps holds min(5, anomaly_count)
\* timestamps of anomalous rows, the most recent ones, sorted strictly
\* newest first.
C19_StrictlyNewestFirst ==
    applied.fn = "getAnomalySummary" =>
        LET ts == applied.result.value.anomaly_timestamps
        IN  /\ MostRecentAnomalies(ts, summarized)
            /\ \A i, j \in 1..Len(ts) : i < j => ts[i] > ts[j]

\* C19, amended: anomaly_timestamps holds min(5, anomaly_count) timestamps
\* of anomalous rows, the most recent ones, sorted newest first: no entry is
\* older than the one after it, and two entries are equal only when two
\* anomalous rows bear the same timestamp.
C19_NewestFirst ==
    applied.fn = "getAnomalySummary" =>
        LET ts == applied.result.value.anomaly_timestamps
        IN  /\ MostRecentAnomalies(ts, summarized)
            /\ \A i, j \in 1..Len(ts) :
                  i < j => \/ ts[i] > ts[j]
                           \/ ts[i] = ts[j] /\ stamped(summarized, ts[i]) > 1

\* Seven anomalous runs stored oldest first, one of them stamped as
\* another: the five most recent are listed, the equal pair among them
C19_Witness ==
    /\ applied.fn = "getAnomalySummary"
    /\ applied.timeRange = Str("30days")
    /\ predictions = runs(8, {1, 2, 3, 4, 6, 7, 8})
    /\ applied.result.value.anomaly_count = 7
    /\ applied.result.value.anomaly_timestamps = <<-13, -13, -14, -17, -18>>

(***************************************************************************)
(* Properties of requests in flight together.                              *)
(***************************************************************************)
\* The instant of the k-th call, or of the last one when there are fewer
instantOf(calls, k) == IF k <= Len(calls) THEN calls[k].at ELSE calls[Len(calls)].at

\* A request processed alone: a fresh handler taken through the prompt and
\* the outcomes of the calls listed, at their instants
alone(calls) ==
    LET received == start(NewHandler, calls[1].request, calls[1].at)
        analyzed ==
            IF calls[1].outcome = "ok"
            THEN onAnalyzed(received, calls[1].reply, instantOf(calls, 2))
            ELSE onAnalyzeFailed(received, calls[1].reply)
        executed ==
            IF calls[2].outcome = "ok"
            THEN onRows(analyzed, calls[2].reply.value, instantOf(calls, 3))
            ELSE onStoreError(analyzed, calls[2].reply)
        formatted ==
            IF calls[3].outcome = "ok"
            THEN onFormatted(executed, calls[3].reply)
            ELSE onFormatFailed(executed, calls[3].reply)
    IN  IF Len(calls) = 0 THEN NewHandler
        ELSE IF calls[1].outcome = "pending" THEN received
        ELSE IF Len(calls) = 1 \/ calls[2].outcome = "pending" THEN analyzed
        ELSE IF Len(calls) = 2 \/ calls[3].outcome = "pending" THEN executed
        ELSE formatted

\* C20: whatever the interleaving of the requests in flight, each request's
\* handler stands where the same request processed alone would, given the
\* prompt and the classifier, store and formatter replies it received
\* itself: its locals, its calls and its response owe nothing to another
\* request.
C20_StatelessIsolation ==
    \A r \in Requests : handlers[r] = alone(handlers[r].calls)

\* One request answered while the other, classified differently, waits
\* for the store
C20_Witness ==
    /\ handlers["r1"].pc = "Done"
    /\ handlers["r1"].result = Str("HISTORICAL_AVG:humidity:1days")
    /\ Sent("r1", 200, "No data.")
    /\ handlers["r2"].pc = "Executing"
    /\ handlers["r2"].result = Str("MAINTENANCE_CHECK")

\* C21, as claimed: a second CURRENT_VALUE for the same field over the same
\* table returns what the first returned: the field's value in the row with
\* the greatest timestamp, or nothing when the table is empty.
C21_IdempotentRead ==
    (applied.queryType = "CURRENT_VALUE" /\ applied.previous # Undefined) =>
        /\ applied.result = applied.previous.value
        /\ applied.result.ok
        /\ IF Len(sensor_history) = 0 THEN applied.result.value = <<>>
           ELSE \E row \in latestRows(sensor_history) :
                   applied.result.value =
                       <<[c \in {applied.field.val} |-> row[applied.field.val]]>>

\* C21, amended: each CURRENT_VALUE returns the field's value in a row with
\* the greatest timestamp, or nothing when the table is empty; a second one
\* over the same table returns what the first returned when one row alone
\* holds the greatest timestamp.
C21_ReadOfLatest ==
    (applied.queryType = "CURRENT_VALUE" /\ applied.previous # Undefined) =>
        /\ applied.result.ok
        /\ applied.previous.value.ok
        /\ IF Len(sensor_history) = 0
           THEN applied.result.value = <<>> /\ applied.previous.value.value = <<>>
           ELSE /\ \A got \in {applied.result.value, applied.previous.value.value} :
                     \E row \in latestRows(sensor_history) :
                        got = <<[c \in {applied.field.val} |-> row[applied.field.val]]>>
                /\ Cardinality({i \in 1..Len(sensor_history) :
                                   sensor_history[i] \in latestRows(sensor_history)}) = 1
                      => applied.result = applied.previous.value

\* Two reads of the humidity over three readings, the latest stored first
C21_Witness ==
    /\ applied.queryType = "CURRENT_VALUE"
    /\ sensor_history =
          <<mkSensorRow(-23, Num(20)), mkSensorRow(-25, Num(30)),
            mkSensorRow(-24, Num(10))>>
    /\ applied.result = Return(<<[c \in {"humidity"} |-> Num(20)]>>)
    /\ applied.previous = Held(applied.result)

(***************************************************************************)
(* Properties of requests whose classifier output names no column, no      *)
(* usable duration, or a duration with a unit.                             *)
(***************************************************************************)
\* The operations that read one column, named by the second token
FieldCodes ==
    {"CURRENT_VALUE", "HISTORICAL_AVG", "HISTORICAL_MAX", "HISTORICAL_MIN",
     "TREND", "TIME_OF_HIGHEST", "PREDICTION_HISTORY"}
UnrecognizedField(text) ==
    /\ \E k \in FieldCodes : HasCode(text, k)
    /\ fieldOf(text).type = "string"
    /\ fieldOf(text).val \notin SensorColumns \cup PredictionColumns

\* C22, as claimed: a request whose classifier output names a field that is no
\* column, for an operation that reads one, does not fail on that: its store
\* query is answered with an empty result and the request goes on.
C22_UnrecognizedFieldDegrades ==
    \A r \in Requests :
        (Analyzed(r) /\ UnrecognizedField(handlers[r].result.val)) =>
            /\ handlers[r].caught # ColumnError
            /\ \A i \in CallsTo(r, "store") :
                  handlers[r].calls[i].outcome = "ok" =>
                      handlers[r].calls[i].reply = <<>>

\* CURRENT_VALUE:bogus: the store rejects the column and the request fails
C22_Witness ==
    \E r \in Requests :
        /\ Analyzed(r)
        /\ handlers[r].result = Str("CURRENT_VALUE:bogus")
        /\ handlers[r].pc = "Failed"
        /\ handlers[r].caught = ColumnError
        /\ Sent(r, 500, ApologyText)

(***************************************************************************)
(* Properties of the averages, statistics and verdicts.                    *)
(***************************************************************************)
\* The names a reader may take for the known numeric channels: the table's
\* sensor columns, or the field names of the configuration
ConfiguredNames ==
    {sensorFields[k] : k \in 1..Len(sensorFields)} \ {"units", "displayNames"}
ChannelSets == {SensorChannels, ConfiguredNames}

\* C23, as claimed: over a window with rows getAverageOfAllSensors returns one
\* entry for each known numeric channel and no other key, each the sum of the
\* channel's values (null or missing as 0) over the number of rows; over an
\* empty window it returns an empty object.
C23_AverageOfAllSensorsShape ==
    applied.fn = "getAverageOfAllSensors" =>
        /\ applied.result.ok
        /\ IF Len(applied.data.value) = 0 THEN applied.result.value = <<>>
           ELSE /\ DOMAIN applied.result.value \in ChannelSets
                /\ \A f \in DOMAIN applied.result.value :
                      applied.result.value[f] =
                          Ratio(sumSeq([i \in 1..Len(applied.data.value) |->
                                          numberOrZero(prop(applied.data.value[i], f))]),
                                Len(applied.data.value))

\* One reading in the window: the object returned has an entry named units
C23_Witness ==
    /\ applied.fn = "getAverageOfAllSensors"
    /\ applied.timeRange = Str("1days")
    /\ sensor_history = <<mkSensorRow(-23, Num(20))>>
    /\ applied.result.ok
    /\ "units" \in DOMAIN applied.result.value
    /\ applied.result.value["units"] = Ratio(0, 1)

\* What does hold: the keys are those of the configuration's sensorFields
\* object, units and displayNames among them, each with the sum over the rows
AverageOfAllSensorsValues ==
    (applied.fn = "getAverageOfAllSensors" /\ Len(applied.data.value) > 0) =>
        /\ DOMAIN applied.result.value = ConfiguredNames \cup {"units", "displayNames"}
        /\ \A f \in DOMAIN applied.result.value :
              applied.result.value[f] =
                  Ratio(sumSeq([i \in 1..Len(applied.data.value) |->
                                  numberOrZero(prop(applied.data.value[i], f))]),
                        Len(applied.data.value))

VibrationChannels ==
    {"compressor_vibration", "compressor_vibration_x", "compressor_vibration_y",
     "compressor_vibration_z"}
\* The sum of a column over the rows idx, a null counting as 0
RECURSIVE SumOrZero(_, _, _)
SumOrZero(rows, idx, column) ==
    IF idx = {} THEN 0
    ELSE LET i == CHOOSE j \in idx : TRUE
         IN  (IF rows[i][column].type = "number" THEN rows[i][column].val ELSE 0)
                 + SumOrZero(rows, idx \ {i}, column)
\* How many times row occurs in rows
occurrences(rows, row) == Cardinality({i \in 1..Len(rows) : rows[i] = row})
\* The rows of the window, cut down to the timestamp and the four channels
vibrationRows ==
    [i \in 1..Len(appliedWindow) |->
        [c \in VibrationChannels \cup {"timestamp"} |-> appliedWindow[i][c]]]

C25_Confidence ==
    decidedOn =>
        LET p == applied.data.value[1]
            A == IF p["anomaly"] = Bool(TRUE) THEN 100 ELSE 0
            W42 == 42 * (3 * A + 2 * p["failure_probability"].val
                         + (100 - p["health_index"].val))
                   + (IF p["remaining_useful_life"].val >= 168 THEN 0
                      ELSE 25 * (168 - p["remaining_useful_life"].val))
            c == applied.result.value.confidence
        IN  (/\ p["failure_probability"].val \in 0..100
             /\ p["health_index"].val \in 0..100
             /\ p["remaining_useful_life"].val >= 0) =>
                /\ applied.result.ok
                /\ c \in 0..100
                /\ \/ 588 * c - 294 <= 2 * W42 /\ 2 * W42 < 588 * c + 294
                   \/ c = 100 /\ 2 * W42 >= 588 * 100 + 294

\* No anomaly, failure probability 0.41, health 69, 167 hours left: W/7 is
\* 16.23 and the confidence 16; the worst prediction gives W/7 = 100
C25_Witness ==
    /\ decidedOn
    /\ predictions = <<mkPrediction(-1, Bool(FALSE), Num(41), Num(69), Num(167))>>
    /\ applied.result.value.confidence = 16

\* The reasons of the verdict that start with the given words
reasonsWith(words) ==
    {i \in 1..Len(applied.result.value.reasons) :
        startsWith(applied.result.value.reasons[i], words)}

\* C26: the reasons of a verdict on a prediction hold the anomaly reason iff
\* the anomaly flag is set, the failure-probability reason iff
\* failure_probability > 0.4, the health reason iff health_index < 70, the
\* remaining-life reason iff remaining_useful_life < 168, and "All parameters
\* within normal operating ranges" iff none of the four holds and
\* maintenance_needed is false; they hold nothing else and are never empty.
C26_ReasonsList ==
    decidedOn =>
        LET p == applied.data.value[1]
            verdict == applied.result.value
            anomaly == p["anomaly"] = Bool(TRUE)
            probable == p["failure_probability"].val > 40
            unhealthy == p["health_index"].val < 70
            ending == p["remaining_useful_life"].val < 168
            count(cond) == IF cond THEN 1 ELSE 0
            normal == ~anomaly /\ ~probable /\ ~unhealthy /\ ~ending
                      /\ verdict.maintenance_needed = FALSE
        IN  /\ applied.result.ok
            /\ Cardinality(reasonsWith("Anomaly detected in system operation"))
                  = count(anomaly)
            /\ Cardinality(reasonsWith("High failure probability: ")) = count(probable)
            /\ Cardinality(reasonsWith("Low health index: ")) = count(unhealthy)
            /\ Cardinality(reasonsWith("Limited remaining useful life: "))
                  = count(ending)
            /\ Cardinality(reasonsWith("All parameters within normal operating ranges"))
                  = count(normal)
            /\ Len(verdict.reasons) =
                  count(anomaly) + count(probable) + count(unhealthy)
                  + count(ending) + count(normal)
            /\ Len(verdict.reasons) > 0

\* Health 69 with nothing else beyond a threshold: no maintenance needed, and
\* the low health given as the one reason
C26_Witness ==
    /\ decidedOn
    /\ predictions = <<mkPrediction(-1, Bool(FALSE), Num(40), Num(69), Num(168))>>
    /\ applied.result.value.maintenance_needed = FALSE
    /\ applied.result.value.reasons = <<"Low health index: 69.0/100">>

(***************************************************************************)
(* Properties of the responses and the outbound calls of a request.        *)
(***************************************************************************)
\* C27: a request is answered once: nothing is sent before the handler ends,
\* and a handler that has ended, by the GENERAL return, the clarification,
\* the formatted answer or the catch block, has sent one response, the 500
\* apology if it failed and a 200 otherwise; never both.
C27_OneResponse ==
    \A r \in Requests :
        LET sent == handlers[r].res
        IN  /\ Len(sent) <= 1
            /\ handlers[r].pc \in Terminal <=> Len(sent) = 1
            /\ \A i \in 1..Len(sent) :
                  /\ sent[i].status = 500 <=> handlers[r].pc = "Failed"
                  /\ sent[i].status = 200 <=>
                        handlers[r].pc \in {"GeneralReply", "Clarified", "Done"}
                  /\ sent[i].status = 500 => sent[i].body = ApologyText

\* The formatter answered without content: trimming it throws after the
\* three calls succeeded, and the apology is the one response
C27_Witness ==
    \E r \in Requests :
        /\ handlers[r].pc = "Failed"
        /\ Len(handlers[r].calls) = 3
        /\ handlers[r].calls[3].outcome = "ok"
        /\ handlers[r].res = <<[status |-> 500, body |-> ApologyText]>>

\* C28: a request that has started makes one classifier call; one that ends
\* in Done has made one store query and one formatter call, both answered;
\* one that ends with the classifier's own text or the clarification has made
\* the classifier call and nothing else; no request makes a second store
\* query or a second formatter call.
C28_CallBudget ==
    \A r \in Requests :
        LET made(to) == Cardinality(CallsTo(r, to))
        IN  /\ made("classifier") = (IF handlers[r].pc = "Idle" THEN 0 ELSE 1)
            /\ made("store") <= 1
            /\ made("formatter") <= 1
            /\ Len(handlers[r].calls) = made("classifier") + made("store")
                                          + made("formatter")
            /\ handlers[r].pc \in {"Formatting", "Done"} =>
                  /\ made("store") = 1
                  /\ made("formatter") = 1
            /\ handlers[r].pc = "Done" =>
                  \A i \in 1..3 : handlers[r].calls[i].outcome = "ok"
            /\ handlers[r].pc \in {"GeneralReply", "Clarified"} =>
                  /\ made("store") = 0
                  /\ made("formatter") = 0

\* An average over a window without rows, formatted and sent: three calls
C28_Witness ==
    \E r \in Requests :
        /\ handlers[r].pc = "Done"
        /\ handlers[r].result = Str("HISTORICAL_AVG:humidity:1days")
        /\ handlers[r].calls[2].to = "store"
        /\ handlers[r].calls[2].reply = Held(<<>>)
        /\ handlers[r].calls[3].to = "formatter"

\* token without its first "hours" (token itself when it has none)
hoursCut(token) ==
    IF ~includes(token, "hours") THEN token
    ELSE LET before == CHOOSE b \in 0..Len(token) :
                          /\ b + 5 <= Len(token)
                          /\ SubSeq(token, b + 1, b + 5) = "hours"
                          /\ ~includes(SubSeq(token, 1, b + 4), "hours")
         IN  SubSeq(token, 1, before) \o SubSeq(token, before + 6, Len(token))

\* The decimal digits text starts with, as far as they go
leadingDigits(text) ==
    LET k == CHOOSE m \in 0..Len(text) :
                /\ \A i \in 1..m : CharAt(text, i) \in Digits
                /\ m = Len(text) \/ CharAt(text, m + 1) \notin Digits
    IN  SubSeq(text, 1, k)
\* digits are the decimal digits of n
Reads(digits, n) == n >= 0 /\ digits = naturalToString(n)

\* The texts analyzeUserQuery may return, those with a windowed operation
\* code, and the duration of each: its third token, the text the integer is
\* read from (for TREND the token without its first "hours"), the hours of
\* its unit, and the digits the token and the text read start with
ClassifierTexts == {trim(c) : c \in Completions}
Windowed(text) == \E k \in WindowedQueryTypes : HasCode(text, k)
WindowedTexts == {text \in ClassifierTexts : Windowed(text)}
unitHours(text) == IF HasCode(text, "TREND") THEN 1 ELSE HoursPerDay
Durations ==
    [text \in WindowedTexts |->
        LET token == timeRangeOf(text)
            read == IF token = Undefined THEN Undefined
                    ELSE IF HasCode(text, "TREND") THEN Str(hoursCut(token.val))
                    ELSE token
        IN  [token |-> token, read |-> read, unit |-> unitHours(text),
             tokenDigits |-> IF token = Undefined THEN ""
                             ELSE leadingDigits(token.val),
             readDigits |-> IF read = Undefined THEN ""
                            ELSE leadingDigits(read.val)]]

\* The store queries of the windowed operations, each with the hours between
\* the start of its window and the instant it was issued
WindowedCalls(r) ==
    IF Analyzed(r) /\ handlers[r].result.val \in WindowedTexts
    THEN CallsTo(r, "store") ELSE {}
windowHours(r, i) == handlers[r].calls[i].at - handlers[r].calls[i].request.gte.val

\* C29, as claimed: the window of a windowed operation is n hours for TREND
\* and n days for the others, n the leading integer of the third token,
\* whatever follows the integer.
C29_UnitNeverInterpreted ==
    \A r \in Requests : \A i \in WindowedCalls(r) :
        LET duration == Durations[handlers[r].result.val]
            n == windowHours(r, i) \div duration.unit
        IN  /\ windowHours(r, i) = n * duration.unit
            /\ Reads(duration.tokenDigits, n)

\* C29, amended: the window is n hours for TREND, n the leading integer of
\* the third token once its first "hours" is taken out, and n days for the
\* others, n the leading integer of the third token; the unit is not read.
C29_WindowFromInteger ==
    \A r \in Requests : \A i \in WindowedCalls(r) :
        LET duration == Durations[handlers[r].result.val]
            n == windowHours(r, i) \div duration.unit
        IN  /\ windowHours(r, i) = n * duration.unit
            /\ Reads(duration.readDigits, n)

\* HISTORICAL_AVG:humidity:24hours asks for the rows of 24 days
C29_Witness ==
    \E r \in Requests : \E i \in WindowedCalls(r) :
        /\ handlers[r].result = Str("HISTORICAL_AVG:humidity:24hours")
        /\ windowHours(r, i) = 24 * HoursPerDay

\* TREND:humidity:7days asks for the rows of 7 hours
TrendOverDays ==
    \A r \in Requests : \A i \in WindowedCalls(r) :
        handlers[r].result = Str("TREND:humidity:7days") => windowHours(r, i) = 7

\* text starts, after white space and a sign if any, with a decimal digit
HasLeadingInteger(text) ==
    LET s == trimStart(text)
        body == IF Len(s) > 0 /\ CharAt(s, 1) \in {"-", "+"}
                THEN SubSeq(s, 2, Len(s)) ELSE s
    IN  Len(body) > 0 /\ CharAt(body, 1) \in Digits

\* The texts whose third token is absent or has no leading integer, and
\* those for which that is so of the text the integer is read from
NoDuration ==
    {text \in WindowedTexts :
        \/ Durations[text].token = Undefined
        \/ ~HasLeadingInteger(Durations[text].token.val)}
NoDurationRead ==
    {text \in WindowedTexts :
        \/ Durations[text].read = Undefined
        \/ ~HasLeadingInteger(Durations[text].read.val)}

\* Failed with the apology, without a store query or a formatter call
FailedBeforeQuery(r) ==
    /\ handlers[r].pc = "Failed"
    /\ Sent(r, 500, ApologyText)
    /\ CallsTo(r, "store") = {}
    /\ CallsTo(r, "formatter") = {}

\* C30, as claimed: a request whose classifier output has a windowed operation
\* code and a third token that is absent or has no leading integer ends in
\* Failed with the 500 apology, not the clarification; no store query is sent
\* and the formatter is not called.
C30_UnusableDurationFails ==
    \A r \in Requests :
        (Analyzed(r) /\ handlers[r].result.val \in NoDuration)
            => FailedBeforeQuery(r)

\* C30, amended: as claimed, the leading integer of a TREND being looked for
\* in the third token once its first "hours" is taken out.
C30_UnusableDurationFailsUnlessJoined ==
    \A r \in Requests :
        (Analyzed(r) /\ handlers[r].result.val \in NoDurationRead)
            => FailedBeforeQuery(r)

\* HISTORICAL_AVG:humidity:week: the window's start is no date, the apology
\* is sent and nothing was asked of the store
C30_Witness ==
    \E r \in Requests :
        /\ handlers[r].result = Str("HISTORICAL_AVG:humidity:week")
        /\ FailedBeforeQuery(r)
        /\ handlers[r].caught = RangeError

====
